---- MODULE Spec2Model ----
(***************************************************************************)
(* Verification model of the AI-twin conversation pipeline:                *)
(*   - TwinService.chat and the POST /api/twin/chat route (Spec)           *)
(*   - the stand-alone services QuestionClassificationService,             *)
(*     AmbiguityDetectionService, ErrorHandlingService,                    *)
(*     ResponseGeneratorService, PromptBuilderService and the length       *)
(*     score of the learning step (SvcSpec)                                *)
(*   - the memories table behind DatabaseService, written by the           *)
(*     POST /api/memories route, by direct saveMemory calls and by the     *)
(*     write-back of chat turns (MemSpec)                                  *)
(*   - chat requests running concurrently, interleaved at the awaits of    *)
(*     TwinService.chat (ConcSpec)                                         *)
(* Strings are TLA+ strings; a non-ASCII UTF-16 code unit of a source      *)
(* literal is written '#', so Len agrees with the JavaScript .length.      *)
(***************************************************************************)
EXTENDS Integers, Sequences, FiniteSets, TLC

VARIABLES
    pc,               \* position of the current chat request in POST / TwinService.chat
    turn,             \* number of chat requests accepted so far
    request,          \* the TwinChatRequest being processed
    received,         \* the body the route received and the table at that moment
    questionType,     \* result of classifyQuestion
    relevantMemories, \* result of retrieveRelevantMemoriesEnhanced
    userContext,      \* result of getUserContext
    systemPrompt,     \* result of buildEnhancedSystemPrompt (sequence of prompt blocks)
    geminiResponse,   \* result of generateEnhancedTwinResponse
    learningResults,  \* result of enhancedLearnFromInteraction
    httpResponse,     \* the JSON body returned by POST
    calls,            \* external calls issued during the current request
    store,            \* the memories table
    faults,           \* number of external failures injected in this turn
    svcCall,          \* a direct call of one service method with its arguments
    svcResult,        \* the value that call returned
    posts,            \* number of writes requested outside the chat route
    memoryRequest,    \* the last body POST /api/memories or saveMemory was given
    memoryResponse,   \* what it answered
    memoryCalls,      \* the external calls it made
    reqs,             \* the chat requests in flight, by slot
    hook              \* the client's chat hook: its state, refs, timers and requests

vars == <<pc, turn, request, received, questionType, relevantMemories,
          userContext, systemPrompt, geminiResponse, learningResults,
          httpResponse, calls, store, faults, svcCall, svcResult,
          posts, memoryRequest, memoryResponse, memoryCalls, reqs, hook>>

chatVars == <<pc, turn, request, received, questionType, relevantMemories,
              userContext, systemPrompt, geminiResponse, learningResults,
              httpResponse, calls, store, faults>>

svcVars == <<svcCall, svcResult>>

memVars == <<posts, memoryRequest, memoryResponse, memoryCalls>>

concVars == <<reqs>>

hookVars == <<hook>>

None == "none"   \* an absent string
Null == <<>>      \* an absent object; a present object x is <<x>>

-----------------------------------------------------------------------------
(* Bounds *)

MaxFrags == 2       \* fragments per message given to the classifier / detector
MaxErrParts == 2    \* fragments per provider error message
MaxTurns == 1       \* chat requests per behaviour
MaxFaults == 1      \* external failures per turn
MaxResults == 2     \* rows a similarity search may return

-----------------------------------------------------------------------------
(* JavaScript string primitives *)

Includes(s, p) ==
    \E i \in 1..(Len(s) - Len(p) + 1) : SubSeq(s, i, i + Len(p) - 1) = p

UpperCaseLetters ==
    {"A", "B", "C", "D", "E", "F", "G", "H", "I", "J", "K", "L", "M",
     "N", "O", "P", "Q", "R", "S", "T", "U", "V", "W", "X", "Y", "Z"}

LowerChar(c) ==
    IF c \notin UpperCaseLetters THEN c ELSE
    CASE c = "A" -> "a" [] c = "B" -> "b" [] c = "C" -> "c" [] c = "D" -> "d"
      [] c = "E" -> "e" [] c = "F" -> "f" [] c = "G" -> "g" [] c = "H" -> "h"
      [] c = "I" -> "i" [] c = "J" -> "j" [] c = "K" -> "k" [] c = "L" -> "l"
      [] c = "M" -> "m" [] c = "N" -> "n" [] c = "O" -> "o" [] c = "P" -> "p"
      [] c = "Q" -> "q" [] c = "R" -> "r" [] c = "S" -> "s" [] c = "T" -> "t"
      [] c = "U" -> "u" [] c = "V" -> "v" [] c = "W" -> "w" [] c = "X" -> "x"
      [] c = "Y" -> "y" [] c = "Z" -> "z" [] OTHER -> c

\* the string is lowered half by half, so that long messages stay cheap
RECURSIVE toLowerCase(_)
toLowerCase(s) ==
    IF Len(s) <= 1 THEN LowerChar(s)
    ELSE LET h == Len(s) \div 2 IN
         toLowerCase(SubSeq(s, 1, h)) \o toLowerCase(SubSeq(s, h + 1, Len(s)))

IsSpace(c) == c \in {" ", "\n", "\t"}

RECURSIVE trimStart(_)
trimStart(s) ==
    IF Len(s) > 0 /\ IsSpace(SubSeq(s, 1, 1)) THEN trimStart(SubSeq(s, 2, Len(s)))
    ELSE s

RECURSIVE trimEnd(_)
trimEnd(s) ==
    IF Len(s) > 0 /\ IsSpace(SubSeq(s, Len(s), Len(s)))
    THEN trimEnd(SubSeq(s, 1, Len(s) - 1))
    ELSE s

trim(s) == trimEnd(trimStart(s))

\* s.split(/\s+/).length : one more than the number of whitespace runs
SplitWsCount(s) ==
    1 + Cardinality({i \in 1..Len(s) :
            /\ IsSpace(SubSeq(s, i, i))
            /\ (i = 1 \/ ~IsSpace(SubSeq(s, i - 1, i - 1)))})

\* s.split(' ').length : one more than the number of blanks
SplitBlankCount(s) ==
    1 + Cardinality({i \in 1..Len(s) : SubSeq(s, i, i) = " "})

CeilDiv(n, d) == (n + d - 1) \div d

Min(a, b) == IF a <= b THEN a ELSE b

-----------------------------------------------------------------------------
(* twinConfig *)

QuestionTypes == {"casual", "personal", "technical", "deep", "specific"}

CLASSIFICATION_PATTERNS ==
    [casual    |-> {"what's up", "whats up", "how are you", "sup", "hey", "hello",
                    "what are you doing", "what are you upto", "how's it going"},
     personal  |-> {"like", "favorite", "prefer", "enjoy", "love", "hate",
                    "tell me about", "what do you think", "your opinion"},
     technical |-> {"code", "build", "tech", "program", "develop", "architecture",
                    "how do you", "what framework", "database", "api"},
     deep      |-> {"philosophy", "believe", "values", "opinion on", "thoughts on",
                    "what matters", "why do you", "meaning of"},
     specific  |-> {"yesterday", "today", "recently", "last week", "current",
                    "right now", "these days", "lately"}]

MEMORY_CONFIG_count ==
    [casual |-> 0, personal |-> 3, technical |-> 5, deep |-> 8, specific |-> 6]

COMMUNICATION_STYLE_response_length ==
    [casual    |-> [target_words |-> 15,  max_words |-> 30,
                    style |-> "brief_and_natural"],
     personal  |-> [target_words |-> 40,  max_words |-> 80,
                    style |-> "engaging_with_followup"],
     technical |-> [target_words |-> 100, max_words |-> 200,
                    style |-> "detailed_with_examples"],
     deep      |-> [target_words |-> 150, max_words |-> 300,
                    style |-> "thoughtful_and_comprehensive"],
     specific  |-> [target_words |-> 60,  max_words |-> 120,
                    style |-> "contextual_and_precise"]]

-----------------------------------------------------------------------------
(* QuestionClassificationService *)

SomePattern(patterns, lowerMessage) == \E p \in patterns : Includes(lowerMessage, p)

\* fastClassifyByKeywords with the personal list tried before the casual one
fastClassifyByKeywords_personalFirst(message) ==
    LET lowerMessage == toLowerCase(message) IN
    IF SomePattern(CLASSIFICATION_PATTERNS.personal, lowerMessage) THEN "personal"
    ELSE IF SomePattern(CLASSIFICATION_PATTERNS.casual, lowerMessage) THEN "casual"
    ELSE IF SomePattern(CLASSIFICATION_PATTERNS.technical, lowerMessage) THEN "technical"
    ELSE IF SomePattern(CLASSIFICATION_PATTERNS.deep, lowerMessage) THEN "deep"
    ELSE IF SomePattern(CLASSIFICATION_PATTERNS.specific, lowerMessage) THEN "specific"
    ELSE "unknown"

fastClassifyByKeywords(message) ==
    LET lowerMessage == toLowerCase(message) IN
    IF SomePattern(CLASSIFICATION_PATTERNS.casual, lowerMessage) THEN "casual"
    ELSE IF SomePattern(CLASSIFICATION_PATTERNS.personal, lowerMessage) THEN "personal"
    ELSE IF SomePattern(CLASSIFICATION_PATTERNS.technical, lowerMessage) THEN "technical"
    ELSE IF SomePattern(CLASSIFICATION_PATTERNS.deep, lowerMessage) THEN "deep"
    ELSE IF SomePattern(CLASSIFICATION_PATTERNS.specific, lowerMessage) THEN "specific"
    ELSE "unknown"

\* What the provider does with the classification prompt: it throws, returns
\* no text, or returns some text.
LlmOutcomes ==
    {[threw |-> TRUE,  text |-> None],
     [threw |-> FALSE, text |-> None],
     [threw |-> FALSE, text |-> ""],
     [threw |-> FALSE, text |-> "personal"],
     [threw |-> FALSE, text |-> " Technical\n"],
     [threw |-> FALSE, text |-> "DEEP"],
     [threw |-> FALSE, text |-> "specific."],
     [threw |-> FALSE, text |-> "a casual question"]}

\* the try block of llmClassifyQuestion: an exception of the provider escapes it
llmClassifyTry(outcome) ==
    IF outcome.threw THEN [threw |-> TRUE, type |-> None]
    ELSE IF outcome.text = None THEN [threw |-> FALSE, type |-> "casual"]
    ELSE LET classification == toLowerCase(trim(outcome.text)) IN
         [threw |-> FALSE,
          type |-> IF classification \in QuestionTypes THEN classification
                   ELSE "casual"]

\* llmClassifyQuestion without its catch block
llmClassifyQuestion_noCatch(outcome) == llmClassifyTry(outcome)

\* llmClassifyQuestion: the catch block answers "casual"
llmClassifyQuestion(outcome) ==
    LET r == llmClassifyTry(outcome) IN
    IF r.threw THEN [threw |-> FALSE, type |-> "casual"] ELSE r

\* classifyQuestion: the category, the number of generation calls it made and
\* whether an exception left it
classifyQuestion(message, outcome) ==
    LET keywordResult == fastClassifyByKeywords(message) IN
    IF keywordResult # "unknown"
    THEN [threw |-> FALSE, type |-> keywordResult, llmCalls |-> 0]
    ELSE LET r == llmClassifyQuestion(outcome) IN
         [threw |-> r.threw, type |-> r.type, llmCalls |-> 1]

-----------------------------------------------------------------------------
(* AmbiguityDetectionService *)

\* AMBIGUOUS_KEYWORDS.generic_patterns, each regular expression written as
\* the set of strings it matches anywhere in the message
generic_patterns ==
    {"what do you like", "what do you enjoy", "what do you prefer",
     "what do you love", "what do you hate",
     "what are you into", "what are you interested in",
     "tell me what you like", "tell me what you enjoy",
     "tell me about you like", "tell me about you enjoy",
     "what interests you", "what excites you",
     "what do you think about",
     "what are your thoughts", "what are your opinions"}

vague_objects == {"things", "stuff", "anything", "something", "everything"}

KNOWLEDGE_DOMAINS ==
    [music      |-> {"music", "song", "band", "artist", "genre", "album",
                     "playlist", "sound", "track"},
     technology |-> {"technology", "programming", "code", "framework", "language",
                     "software", "development", "tech", "coding"},
     food       |-> {"food", "eating", "cooking", "restaurant", "cuisine", "meal",
                     "recipe", "taste"},
     movies     |-> {"movie", "film", "cinema", "series", "show", "tv",
                     "entertainment", "actor"},
     activities |-> {"hobby", "activity", "sport", "exercise", "game", "fun",
                     "leisure", "pastime"},
     books      |-> {"book", "reading", "novel", "author", "literature", "story",
                     "write", "writing"},
     work       |-> {"work", "job", "career", "project", "business",
                     "professional", "office"},
     travel     |-> {"travel", "trip", "vacation", "place", "country", "city",
                     "visit"}]

DomainNames == DOMAIN KNOWLEDGE_DOMAINS

\* the tags of the knowledge domains
KNOWLEDGE_DOMAINS_tags ==
    [music      |-> {"music", "songs", "audio"},
     technology |-> {"technology", "programming", "code", "tech", "development"},
     food       |-> {"food", "cooking", "cuisine", "meal"},
     movies     |-> {"movies", "films", "entertainment", "tv"},
     activities |-> {"hobby", "activity", "sport", "game"},
     books      |-> {"books", "reading", "literature", "writing"},
     work       |-> {"work", "job", "project", "career"},
     travel     |-> {"travel", "trip", "vacation", "place"}]

\* Object.keys(KNOWLEDGE_DOMAINS), in the order of the declaration
DomainOrder ==
    <<"music", "technology", "food", "movies", "activities", "books", "work",
      "travel">>

\* s.split(' ')
RECURSIVE splitBlank(_)
splitBlank(s) ==
    LET blanks == {i \in 1..Len(s) : SubSeq(s, i, i) = " "} IN
    IF blanks = {} THEN <<s>>
    ELSE LET i == CHOOSE i \in blanks : \A j \in blanks : i <= j IN
         <<SubSeq(s, 1, i - 1)>> \o splitBlank(SubSeq(s, i + 1, Len(s)))

\* parts.join(sep)
RECURSIVE joinWith(_, _)
joinWith(parts, sep) ==
    IF Len(parts) = 0 THEN ""
    ELSE IF Len(parts) = 1 THEN parts[1]
    ELSE parts[1] \o sep \o joinWith(Tail(parts), sep)

\* xs.slice(from, to) and s.substring(from, to), counted from 0
slice(xs, from, to) == SubSeq(xs, from + 1, Min(to, Len(xs)))

\* phrase, or its first n - 3 characters and an ellipsis when it is longer than n
ellipsize(phrase, n) ==
    IF Len(phrase) > n THEN slice(phrase, 0, n - 3) \o "..." ELSE phrase

\* extractMusicExample and extractTechExample for their keywords
extractKeywordExample(content, keywords) ==
    LET words == splitBlank(content)
        hits == {i \in DOMAIN words :
                    \E k \in keywords : Includes(toLowerCase(words[i]), k)}
        i == CHOOSE i \in hits : \A j \in hits : i <= j
    IN  IF hits # {}
        THEN ellipsize(joinWith(slice(words, IF i - 1 > 2 THEN i - 3 ELSE 0, i + 3),
                                " "), 40)
        ELSE slice(content, 0, 40) \o (IF Len(content) > 40 THEN "..." ELSE "")

generateBriefExample(category, content) ==
    CASE category = "music" ->
            extractKeywordExample(content, {"music", "song", "band", "artist",
                                            "album", "genre"})
      [] category = "technology" ->
            extractKeywordExample(content, {"programming", "code", "framework",
                                            "language", "development"})
      [] category = "activities" ->
            slice(content, 0, 40) \o (IF Len(content) > 40 THEN "..." ELSE "")
      [] OTHER -> ellipsize(joinWith(slice(splitBlank(content), 0, 8), " "), 50)

belongsToDomain(memory, domain) ==
    \/ \E keyword \in KNOWLEDGE_DOMAINS[domain] :
            Includes(toLowerCase(memory.content), keyword)
    \/ \E tag \in memory.tags : toLowerCase(tag) \in KNOWLEDGE_DOMAINS_tags[domain]

\* the positions of the memories categorizeMemoriesByDomain puts into a domain
domainMemories(memories, domain) ==
    {i \in DOMAIN memories : belongsToDomain(memories[i], domain)}

\* the sample memory taken to be the first memory of the domain
sampleMemory_first(memories, domain) ==
    LET of == domainMemories(memories, domain) IN
    memories[CHOOSE i \in of : \A j \in of : i <= j]

\* the sample memory of a populated domain: the stable sort by descending
\* relevance puts the first of the most relevant memories in front
sampleMemory(memories, domain) ==
    LET of == domainMemories(memories, domain)
        best == {i \in of : \A j \in of :
                    memories[j].relevance_score <= memories[i].relevance_score}
    IN  memories[CHOOSE i \in best : \A j \in best : i <= j]

\* xs.filter(x => kept.has(x)): the elements of xs that are in kept, in order
RECURSIVE filterSeq(_, _)
filterSeq(xs, kept) ==
    IF xs = <<>> THEN <<>>
    ELSE (IF xs[1] \in kept THEN <<xs[1]>> ELSE <<>>) \o filterSeq(Tail(xs), kept)

\* categoryList.replace(/,([^,]*)$/, ', or$1')
orBeforeLast(categoryList) ==
    LET commas == {i \in 1..Len(categoryList) : SubSeq(categoryList, i, i) = ","} IN
    IF commas = {} THEN categoryList
    ELSE LET i == CHOOSE i \in commas : \A j \in commas : j <= i IN
         SubSeq(categoryList, 1, i - 1) \o ", or"
            \o SubSeq(categoryList, i + 1, Len(categoryList))

generateClarificationQuestion(availableCategories) ==
    IF Len(availableCategories) = 0
    THEN "Could you be more specific about what you're interested in?"
    ELSE IF Len(availableCategories) <= 3
    THEN "What context were you thinking about - "
            \o orBeforeLast(joinWith(availableCategories, ", ")) \o "?"
    ELSE "What context were you thinking about - "
            \o joinWith(slice(availableCategories, 0, 3), ", ")
            \o ", or something else?"

generateClarificationResponse(memories) ==
    LET availableCategories ==
            filterSeq(DomainOrder,
                      {d \in DomainNames : domainMemories(memories, d) # {}})
        first3 == slice(availableCategories, 0, 3)
        examples == [k \in DOMAIN first3 |->
                        generateBriefExample(first3[k],
                            sampleMemory(memories, first3[k]).content)]
    IN  [briefExamples |->
            filterSeq(examples, {examples[k] : k \in DOMAIN examples} \ {""}),
         clarificationQuestion |-> generateClarificationQuestion(availableCategories),
         categories |-> availableCategories]

detectKeywordAmbiguity(message) ==
    LET lowerMessage == toLowerCase(message)
        hasGenericPattern == \E p \in generic_patterns : Includes(lowerMessage, p)
        hasVagueObjects == \E w \in vague_objects : Includes(lowerMessage, w)
    IN  [isAmbiguous |-> hasGenericPattern \/ hasVagueObjects,
         reasons |-> (IF hasGenericPattern THEN {"generic_question_pattern"} ELSE {})
                     \cup (IF hasVagueObjects THEN {"contains_vague_objects"} ELSE {})]

mentionedDomains(message) ==
    LET lowerMessage == toLowerCase(message) IN
    {d \in DomainNames : \E k \in KNOWLEDGE_DOMAINS[d] : Includes(lowerMessage, k)}

\* detectScopeAmbiguity that does not look at the domains the message mentions
detectScopeAmbiguity_ignoreDomains(message) ==
    [isAmbiguous |-> TRUE, reasons |-> {"no_specific_domain_mentioned"}]

detectScopeAmbiguity(message) ==
    LET n == Cardinality(mentionedDomains(message)) IN
    [isAmbiguous |-> n = 0,
     reasons |-> IF n = 0 THEN {"no_specific_domain_mentioned"}
                 ELSE IF n > 2 THEN {"too_many_domains_mentioned"} ELSE {}]

contextClues ==
    {"recently", "currently", "for work", "for fun", "when coding",
     "in your free time", "professionally", "personally", "these days"}

specificModifiers ==
    {"favorite", "best", "most", "least", "preferred", "top",
     "specific", "particular", "exactly", "precisely"}

\* specificityScore is kept in tenths
analyzeQuestionSpecificity(message) ==
    LET wordCount == SplitWsCount(trim(message))
        lowerMessage == toLowerCase(message)
        hasContextClues == \E c \in contextClues : Includes(lowerMessage, c)
        hasSpecificModifiers == \E m \in specificModifiers : Includes(lowerMessage, m)
        specificityScore ==
              (IF wordCount <= 4 THEN -4 ELSE IF wordCount <= 6 THEN -2 ELSE 0)
            + (IF hasContextClues THEN 3 ELSE 0)
            + (IF hasSpecificModifiers THEN 2 ELSE 0)
    IN  [isAmbiguous |-> specificityScore < 0,
         specificityScore |-> specificityScore,
         reasons |-> (IF wordCount <= 4 THEN {"very_short_question"}
                      ELSE IF wordCount <= 6 THEN {"short_question"} ELSE {})
                     \cup (IF hasContextClues THEN {} ELSE {"no_context_clues"})]

\* detectAmbiguity adding the weight of every signal that fires, whether or
\* not the signal before it fired
detectAmbiguity_noCascade(message) ==
    LET keywordResult == detectKeywordAmbiguity(message)
        scopeResult == detectScopeAmbiguity(message)
        specificityResult == analyzeQuestionSpecificity(message)
        confidence == (IF keywordResult.isAmbiguous THEN 4 ELSE 0)
                      + (IF scopeResult.isAmbiguous THEN 3 ELSE 0)
                      + (IF specificityResult.isAmbiguous THEN 3 ELSE 0)
    IN  [isAmbiguous |-> confidence >= 5,
         confidence |-> Min(confidence, 10),
         clarificationNeeded |-> confidence >= 5,
         reasons |-> (IF keywordResult.isAmbiguous THEN keywordResult.reasons ELSE {})
                     \cup (IF scopeResult.isAmbiguous THEN scopeResult.reasons ELSE {})
                     \cup (IF specificityResult.isAmbiguous
                           THEN specificityResult.reasons ELSE {})]

\* confidence is kept in tenths
detectAmbiguity(message) ==
    LET keywordResult == detectKeywordAmbiguity(message)
        scopeResult == detectScopeAmbiguity(message)
        specificityResult == analyzeQuestionSpecificity(message)
        fired1 == keywordResult.isAmbiguous
        fired2 == fired1 /\ scopeResult.isAmbiguous
        fired3 == fired2 /\ specificityResult.isAmbiguous
        confidence == (IF fired1 THEN 4 ELSE 0) + (IF fired2 THEN 3 ELSE 0)
                      + (IF fired3 THEN 3 ELSE 0)
    IN  [isAmbiguous |-> confidence >= 5,
         confidence |-> Min(confidence, 10),
         clarificationNeeded |-> confidence >= 5,
         reasons |-> (IF fired1 THEN keywordResult.reasons ELSE {})
                     \cup (IF fired2 THEN scopeResult.reasons ELSE {})
                     \cup (IF fired3 THEN specificityResult.reasons ELSE {})]

-----------------------------------------------------------------------------
(* ErrorHandlingService *)

overloadResponses ==
    <<"My brain is having a little traffic jam right now #### The AI servers are busier than a coffee shop during finals week! Give me a second to get my thoughts together?",
      "Oops, looks like I'm experiencing some mental lag! ## The free AI servers are getting hammered harder than my keyboard during a coding session. Mind trying that again?",
      "Ahh, the classic 'my brain is buffering' moment! ## Seems like everyone's asking their AI friends deep questions today. Let me reboot real quick...",
      "My neural networks are doing the digital equivalent of 'umm...' right now ## The servers are more packed than a tech conference! Hit me again?",
      "Brain.exe has stopped responding! ## Looks like the AI servers are having their own existential crisis. Try asking me again - I promise I'm usually more coherent than this!",
      "Currently experiencing a 503 brain error - that's tech speak for 'too many people are being curious at once!' ## Give it another shot?",
      "My thoughts are getting a 'service temporarily unavailable' error ## Even us AI twins need a breather sometimes. Ready for round two?">>

overloadMusicResponse ==
    "My music database is currently skipping like an old CD player! #### The servers are overloaded - try asking about my tunes again?"

overloadTechResponse ==
    "Ironically, I'm experiencing a technical difficulty while you're asking about tech! ### The servers are running hotter than my laptop during a build. Try again?"

getOverloadResponse(userMessage) ==
    overloadResponses
    \o (IF Includes(toLowerCase(userMessage), "music")
        THEN <<overloadMusicResponse>> ELSE <<>>)
    \o (IF Includes(toLowerCase(userMessage), "tech")
           \/ Includes(toLowerCase(userMessage), "code")
        THEN <<overloadTechResponse>> ELSE <<>>)

getQuotaResponse ==
    <<"Looks like I've hit my daily thinking quota! #### Even AI brains have budgets apparently. This is awkward...",
      "My free trial brain has expired! ## Time to upgrade to premium thoughts, I guess. Give me a moment to figure this out...",
      "Apparently I've been overthinking today and maxed out my AI allowance! #### The irony is not lost on me...">>

getNetworkResponse ==
    <<"My internet connection is having an identity crisis! ### Even my WiFi is confused about what I'm trying to say right now...",
      "Connection timeout - which is just fancy tech speak for 'the internet is being moody' #### Let me try reconnecting my thoughts...",
      "Looks like my neural pathways got lost in cyberspace! #### Give me a sec to find my way back to coherent responses...">>

getModelResponse ==
    <<"Something's wonky with my AI configuration! #### I'm like a computer that forgot how to computer for a second...",
      "My language model is having a grammar crisis! #### Even I don't understand what just happened there. Try again?",
      "Looks like my AI settings got scrambled! ## I promise I'm usually more articulate than 'error 400'...">>

genericResponses ==
    <<"Well, this is embarrassing... My brain just did the digital equivalent of walking into a glass door! #### Mind giving me another shot?",
      "I just experienced what I can only describe as a 'cosmic brain fart' ### Technology, am I right? Let's try this again...",
      "My AI neurons are apparently having a union meeting right now! ### They'll be back shortly. Hit me with that question again?",
      "Oops! My thought process just encountered a 'file not found' error ### The irony of a tech person's AI having tech problems is not lost on me...",
      "Currently experiencing technical difficulties... the kind that make you want to turn it off and on again! ## Ready for attempt #2?">>

getGenericResponse(userMessage) ==
    genericResponses
    \o (IF Len(userMessage) > 50
        THEN <<"Your thoughtful question deserves a better response than whatever digital hiccup just happened! ##### Let me try again...">>
        ELSE <<>>)
    \o (IF Includes(userMessage, "?")
        THEN <<"Your question is perfectly valid - my answer processing system is just having a moment! ### One more time?">>
        ELSE <<>>)

\* errorCategory that looks for the signatures of the model first
errorCategory_modelFirst(errorMessage) ==
    IF \/ Includes(errorMessage, "model")
       \/ Includes(errorMessage, "invalid")
       \/ Includes(errorMessage, "400")
    THEN "model"
    ELSE IF \/ Includes(errorMessage, "503")
            \/ Includes(errorMessage, "Service Unavailable")
            \/ Includes(errorMessage, "overloaded")
            \/ Includes(errorMessage, "429")
            \/ Includes(errorMessage, "rate limit")
    THEN "overload"
    ELSE IF \/ Includes(errorMessage, "quota")
            \/ Includes(errorMessage, "exceeded")
            \/ Includes(errorMessage, "billing")
    THEN "quota"
    ELSE IF \/ Includes(errorMessage, "network")
            \/ Includes(errorMessage, "connection")
            \/ Includes(errorMessage, "timeout")
            \/ Includes(errorMessage, "ENOTFOUND")
    THEN "network"
    ELSE "generic"

\* the failure category getPersonalityErrorResponse assigns to an error message
errorCategory(errorMessage) ==
    IF \/ Includes(errorMessage, "503")
       \/ Includes(errorMessage, "Service Unavailable")
       \/ Includes(errorMessage, "overloaded")
       \/ Includes(errorMessage, "429")
       \/ Includes(errorMessage, "rate limit")
    THEN "overload"
    ELSE IF \/ Includes(errorMessage, "quota")
            \/ Includes(errorMessage, "exceeded")
            \/ Includes(errorMessage, "billing")
    THEN "quota"
    ELSE IF \/ Includes(errorMessage, "network")
            \/ Includes(errorMessage, "connection")
            \/ Includes(errorMessage, "timeout")
            \/ Includes(errorMessage, "ENOTFOUND")
    THEN "network"
    ELSE IF \/ Includes(errorMessage, "model")
            \/ Includes(errorMessage, "invalid")
            \/ Includes(errorMessage, "400")
    THEN "model"
    ELSE "generic"

\* the pool getPersonalityErrorResponse draws its answer from
getPersonalityErrorResponse(errorMessage, userMessage) ==
    LET category == errorCategory(errorMessage) IN
    CASE category = "overload" -> getOverloadResponse(userMessage)
      [] category = "quota"    -> getQuotaResponse
      [] category = "network"  -> getNetworkResponse
      [] category = "model"    -> getModelResponse
      [] OTHER                 -> getGenericResponse(userMessage)

\* shouldHandleGracefully without the "timeout" signature
shouldHandleGracefully_noTimeout(errorMessage) ==
    \/ Includes(errorMessage, "503")
    \/ Includes(errorMessage, "429")
    \/ Includes(errorMessage, "overloaded")
    \/ Includes(errorMessage, "rate limit")
    \/ Includes(errorMessage, "quota")
    \/ Includes(errorMessage, "network")
    \/ Includes(errorMessage, "Service Unavailable")
    \/ Includes(errorMessage, "connection")

shouldHandleGracefully(errorMessage) ==
    \/ Includes(errorMessage, "503")
    \/ Includes(errorMessage, "429")
    \/ Includes(errorMessage, "overloaded")
    \/ Includes(errorMessage, "rate limit")
    \/ Includes(errorMessage, "quota")
    \/ Includes(errorMessage, "network")
    \/ Includes(errorMessage, "timeout")
    \/ Includes(errorMessage, "Service Unavailable")
    \/ Includes(errorMessage, "connection")

tokensOfResponse(errorResponse) == CeilDiv(Len(errorResponse), 4)

\* handleGeminiError: getRandomResponse may pick any index of the pool
handleGeminiError(errorMessage, userMessage) ==
    LET responses == getPersonalityErrorResponse(errorMessage, userMessage) IN
    {[kind |-> "graceful",
      response |-> responses[i],
      tokens_used |-> tokensOfResponse(responses[i]),
      isGracefulError |-> TRUE,
      pool |-> errorCategory(errorMessage)] : i \in 1..Len(responses)}

-----------------------------------------------------------------------------
(* ResponseGeneratorService *)

buildGenerationConfig(qt) ==
    [maxTokens |-> Min(COMMUNICATION_STYLE_response_length[qt].max_words * 2, 1000)]

\* handleGenerationError: the possible results for an error thrown by the provider
handleGenerationError(errorMessage, userMessage) ==
    IF shouldHandleGracefully(errorMessage)
    THEN handleGeminiError(errorMessage, userMessage)
    ELSE {[kind |-> "thrown",
           message |-> "Failed to generate response: " \o errorMessage]}

\* ResponseGeneratorService.generateEnhancedTwinResponse: outcome is what
\* ModelGenerationService.generateWithModel did (returned a result or threw)
RG_generateEnhancedTwinResponse(outcome, userMessage) ==
    IF outcome.threw
    THEN handleGenerationError(outcome.message, userMessage)
    ELSE {[kind |-> "ok", response |-> outcome.response,
           tokens_used |-> outcome.tokens_used]}

-----------------------------------------------------------------------------
(* Prompts: a prompt is the sequence of its lines, in order; a bullet is
   written "* " *)

Range(f) == {f[i] : i \in DOMAIN f}

STRUCTURE_PATTERNS ==
    [casual    |-> "direct_answer_then_reciprocal_question",
     personal  |-> "share_then_ask_then_relate",
     technical |-> "overview_then_details_then_example",
     deep      |-> "explore_then_synthesize_then_reflect",
     specific  |-> "address_directly_then_contextualize"]

INSTRUCTION_TEMPLATES ==
    [casual |->
        <<"CASUAL RESPONSE INSTRUCTIONS:",
          "* Keep it brief and natural",
          "* Match their casual energy",
          "* Don't over-explain",
          "* Feel free to ask \"What about you?\" if appropriate">>,
     personal |->
        <<"PERSONAL RESPONSE INSTRUCTIONS:",
          "* Share ONLY personal experiences that exist in your loaded memories",
          "* If no specific memories exist, discuss preferences in general terms",
          "* Ask follow-up questions to learn about them",
          "* Be genuine and relatable",
          "* NEVER fabricate specific events, concerts, trips, or experiences">>,
     technical |->
        <<"TECHNICAL RESPONSE INSTRUCTIONS:",
          "* Provide detailed technical insights",
          "* Use ONLY examples from your loaded memories",
          "* Explain concepts clearly",
          "* Show your expertise while being accessible",
          "* If no specific examples exist in memory, discuss concepts generally">>,
     deep |->
        <<"DEEP RESPONSE INSTRUCTIONS:",
          "* Explore the topic thoughtfully",
          "* Share ONLY thoughts and values from your documented memories",
          "* Ask meaningful follow-up questions",
          "* NEVER fabricate philosophical experiences or events">>,
     specific |->
        <<"SPECIFIC RESPONSE INSTRUCTIONS:",
          "* Address their specific question directly",
          "* Use ONLY memories that are explicitly loaded",
          "* If no relevant memories exist, be honest about it",
          "* Be precise and helpful without inventing details">>]

memoryBullet(memory) ==
    "* " \o memory.content
         \o (IF memory.mood # None THEN " (" \o memory.mood \o ")" ELSE "")

memoryBullets(memories) == [i \in 1..Len(memories) |->
                                memoryBullet(memories[i])]

userContextBlock(ctx) ==
    IF ctx = Null THEN <<>>
    ELSE <<"USER CONTEXT:",
           "* " \o ToString(ctx[1].conversation_history_length)
                \o " previous interactions",
           "* Relationship: " \o ctx[1].relationship_level>>

lengthLine(qt) ==
    "* Response length: "
        \o ToString(COMMUNICATION_STYLE_response_length[qt].target_words)
        \o " words (max "
        \o ToString(COMMUNICATION_STYLE_response_length[qt].max_words) \o ")"

styleLine(qt) == "* Style: " \o COMMUNICATION_STYLE_response_length[qt].style

toneLine == "* Tone: enthusiastic_but_controlled"

authenticityLine == "* Authenticity: genuine_and_direct"

structureLine(qt) == "* Structure: " \o STRUCTURE_PATTERNS[qt]

PB_MemoryConstraints ==
    <<"You are Pragyan's AI twin with access to limited memories about Pragyan.",
      "# ABSOLUTE MEMORY CONSTRAINTS (OVERRIDE ALL OTHER INSTRUCTIONS):",
      "* You MUST ONLY reference experiences that are explicitly listed in your RELEVANT PERSONAL CONTEXT below",
      "* You MUST NOT fabricate, invent, or assume any memories, events, places, or experiences",
      "* If you don't have a relevant memory, you MUST say \"I don't have specific memories about...\" ",
      "* You MUST NOT mention specific events, places, or details unless they appear in your context",
      "* If asked about something not in your memories, be honest about the limitation and redirect to learning about the user",
      "* You MUST NOT assume the user shares your background, location, or experiences - ask open-ended questions">>

PB_MemoryHeader == "RELEVANT PERSONAL CONTEXT (ONLY USE THESE):"

PB_MemoryValidation ==
    "MEMORY VALIDATION: These are the ONLY facts you can reference. Nothing else exists in your knowledge."

PB_NoneAvailable == "RELEVANT PERSONAL CONTEXT: None available"

PB_DoNotInvent ==
    "CRITICAL: You have NO specific memories loaded. You MUST NOT invent any specific experiences, events, or details. Discuss topics in general terms only and focus on learning about the user."

PB_NoMemoryInstructions ==
    <<"RESPONSE INSTRUCTIONS (NO MEMORIES LOADED):",
      "* Be honest about not having specific memories",
      "* Don't fabricate or assume information",
      "* Focus on learning about the user instead",
      "* Keep responses brief and redirect to user questions">>

PB_MemoryInstructions ==
    [casual |->
        <<"CASUAL RESPONSE INSTRUCTIONS:",
          "* Keep it brief and natural",
          "* Only reference your loaded memories if directly relevant",
          "* Don't over-explain",
          "* Feel free to ask \"What about you?\" if appropriate">>,
     personal |->
        <<"PERSONAL RESPONSE INSTRUCTIONS:",
          "* Share ONLY from your explicitly loaded memories",
          "* If no relevant memories exist, admit it honestly",
          "* Ask follow-up questions to learn about them (but don't assume they share your background)",
          "* Be genuine but constrained to your actual context",
          "* NEVER fabricate specific events, places, or experiences",
          "* Do not assume the user is from the same place or has the same experiences as you">>,
     technical |->
        <<"TECHNICAL RESPONSE INSTRUCTIONS:",
          "* Provide technical insights ONLY from your loaded memories",
          "* Use examples only if they exist in your context",
          "* If no specific examples exist, discuss concepts generally",
          "* Explain clearly but stay within your memory bounds">>,
     deep |->
        <<"DEEP RESPONSE INSTRUCTIONS:",
          "* Explore the topic thoughtfully using ONLY your loaded memories",
          "* Share values and thoughts only if they exist in your context",
          "* Ask meaningful follow-up questions",
          "* NEVER fabricate philosophical experiences or events">>,
     specific |->
        <<"SPECIFIC RESPONSE INSTRUCTIONS:",
          "* Address the question using ONLY your loaded memories",
          "* If no relevant memories exist, be honest about it",
          "* Be precise and helpful without inventing details",
          "* Redirect to learning about the user when appropriate">>]

\* PromptBuilderService.getMemorySafeInstructions
getMemorySafeInstructions(qt, hasMemories) ==
    IF ~hasMemories THEN PB_NoMemoryInstructions
    ELSE PB_MemoryInstructions[qt]

\* PromptBuilderService.buildEnhancedSystemPrompt
PB_buildEnhancedSystemPrompt(qt, memories, ctx) ==
    PB_MemoryConstraints
    \o (IF Len(memories) > 0
        THEN <<PB_MemoryHeader>> \o memoryBullets(memories) \o <<PB_MemoryValidation>>
        ELSE <<PB_NoneAvailable, PB_DoNotInvent>>)
    \o userContextBlock(ctx)
    \o <<"COMMUNICATION STYLE (SECONDARY TO MEMORY CONSTRAINTS):",
         lengthLine(qt), styleLine(qt), toneLine, authenticityLine>>
    \o (IF Len(memories) > 0
        THEN <<structureLine(qt)>>
        ELSE <<"* Structure: admit_limitation_then_ask_about_user">>)
    \o getMemorySafeInstructions(qt, Len(memories) > 0)

TS_MemoryHeader == "RELEVANT PERSONAL CONTEXT:"

\* TwinService.buildEnhancedSystemPrompt, the builder TwinService.chat calls
TS_buildEnhancedSystemPrompt(qt, memories, ctx) ==
    <<"You are Pragyan, a real person having a genuine conversation.",
      "COMMUNICATION STYLE FOR THIS RESPONSE:",
      lengthLine(qt), styleLine(qt), toneLine, structureLine(qt),
      authenticityLine>>
    \o (IF Len(memories) > 0
        THEN <<TS_MemoryHeader>> \o memoryBullets(memories)
        ELSE <<>>)
    \o userContextBlock(ctx)
    \o INSTRUCTION_TEMPLATES[qt]

-----------------------------------------------------------------------------
(* The memories table and DatabaseService *)

\* the table when the first request arrives: memories logged for the persona
\* and one message kept from an earlier conversation with user u1
PersonaMemories ==
    <<[id |-> "m1", content |-> "I love listening to indie music while coding",
       type |-> "preference", subject |-> "self", user_id |-> None,
       tags |-> {"music"}, visibility |-> "public", mood |-> "happy"],
      [id |-> "m2", content |-> "Built a vector search service for a client project",
       type |-> "fact", subject |-> "self", user_id |-> None,
       tags |-> {"project", "work"}, visibility |-> "public", mood |-> None],
      [id |-> "m3", content |-> "Felt unsure about moving to a new city",
       type |-> "diary", subject |-> "self", user_id |-> None,
       tags |-> {"travel"}, visibility |-> "private", mood |-> "anxious"],
      [id |-> "m4", content |-> "I am learning to play jazz music",
       type |-> "user_input", subject |-> "user", user_id |-> "u1",
       tags |-> {"music"}, visibility |-> "private", mood |-> None]>>

\* sequences without repetition over the set S, of length at most n
RECURSIVE Arrangements(_, _)
Arrangements(S, n) ==
    IF n = 0 \/ S = {} THEN {<<>>}
    ELSE {<<>>} \cup
         UNION {{<<x>> \o rest : rest \in Arrangements(S \ {x}, n - 1)} : x \in S}

\* DatabaseService.searchMemories: the rows the search_memories function may
\* return for some query embedding, most similar first (similarity in tenths)
searchMemories(rows, options) ==
    LET eligible == {i \in DOMAIN rows :
                        /\ rows[i].subject = options.subject
                        /\ rows[i].visibility = options.visibility}
        match_count == IF options.limit = 0 THEN 10 ELSE options.limit
        orders == Arrangements(eligible, Min(match_count, MaxResults))
    IN  {[k \in 1..Len(o) |->
            [id |-> rows[o[k]].id, content |-> rows[o[k]].content,
             type |-> rows[o[k]].type, tags |-> rows[o[k]].tags,
             mood |-> rows[o[k]].mood, similarity |-> 10 - 2 * k]] : o \in orders}

\* DatabaseService.getMemories({user_id, type}): matching rows and their count
getMemories(rows, options) ==
    LET matching == {i \in DOMAIN rows :
                        /\ rows[i].type = options.type
                        /\ rows[i].user_id = options.user_id}
    IN  [memories |-> {rows[i] : i \in matching}, total |-> Cardinality(matching)]

\* the CHECK constraints of the memories table
chk_content_not_empty(row) == Len(trim(row.content)) > 0

\* a table without the constraint on user_id
chk_user_id_not_checked(row) == TRUE

chk_user_id_when_user_subject(row) ==
    \/ row.subject = "user" /\ row.user_id # None
    \/ row.subject = "self"

\* DatabaseService.saveMemory replacing the newest row instead of adding one
saveMemory_overwrite(rows, memoryData, reachable) ==
    IF ~reachable \/ ~chk_content_not_empty(memoryData)
       \/ ~chk_user_id_when_user_subject(memoryData)
    THEN [threw |-> TRUE, rows |-> rows]
    ELSE [threw |-> FALSE,
          rows |-> IF Len(rows) = 0 THEN <<memoryData>>
                   ELSE [rows EXCEPT ![Len(rows)] = memoryData]]

\* DatabaseService.saveMemory: the INSERT fails when the database cannot be
\* reached or when the row breaks a constraint, and saveMemory throws
saveMemory(rows, memoryData, reachable) ==
    IF ~reachable \/ ~chk_content_not_empty(memoryData)
       \/ ~chk_user_id_when_user_subject(memoryData)
    THEN [threw |-> TRUE, rows |-> rows]
    ELSE [threw |-> FALSE, rows |-> Append(rows, memoryData)]

-----------------------------------------------------------------------------
(* MemoryRetrievalService / TwinService retrieval helpers *)

toRetrievedMemory(row) ==
    [id |-> row.id, content |-> row.content, type |-> row.type,
     relevance_score |-> row.similarity, tags |-> row.tags, mood |-> row.mood]

\* determineRelationshipLevel with the bounds of friend moved
determineRelationshipLevel_inclusive(interactionCount) ==
    IF interactionCount = 0 THEN "stranger"
    ELSE IF interactionCount <= 5 THEN "acquaintance"
    ELSE IF interactionCount <= 20 THEN "friend"
    ELSE "close_friend"

determineRelationshipLevel(interactionCount) ==
    IF interactionCount = 0 THEN "stranger"
    ELSE IF interactionCount < 5 THEN "acquaintance"
    ELSE IF interactionCount < 20 THEN "friend"
    ELSE "close_friend"

extractUserPreferences(memories) == UNION {m.tags : m \in memories}

\* retrieveTry without the early return for a memory count of 0
retrieveTry_noCountCheck(qt, embedOk, search) ==
    IF ~embedOk
    THEN [threw |-> TRUE, memories |-> <<>>, embeds |-> 1, searches |-> 0]
    ELSE IF search.threw
    THEN [threw |-> TRUE, memories |-> <<>>, embeds |-> 1, searches |-> 1]
    ELSE [threw |-> FALSE,
          memories |-> [i \in 1..Len(search.rows) |->
                            toRetrievedMemory(search.rows[i])],
          embeds |-> 1, searches |-> 1]

\* the try block of retrieveRelevantMemoriesEnhanced: embedOk tells whether
\* createEmbeddings answers, search is what searchMemories does
retrieveTry(qt, embedOk, search) ==
    LET memoryCount == MEMORY_CONFIG_count[qt] IN
    IF memoryCount = 0
    THEN [threw |-> FALSE, memories |-> <<>>, embeds |-> 0, searches |-> 0]
    ELSE IF ~embedOk
    THEN [threw |-> TRUE, memories |-> <<>>, embeds |-> 1, searches |-> 0]
    ELSE IF search.threw
    THEN [threw |-> TRUE, memories |-> <<>>, embeds |-> 1, searches |-> 1]
    ELSE [threw |-> FALSE,
          memories |-> [i \in 1..Len(search.rows) |->
                            toRetrievedMemory(search.rows[i])],
          embeds |-> 1, searches |-> 1]

\* retrieveRelevantMemoriesEnhanced without its catch block
retrieveRelevantMemoriesEnhanced_noCatch(qt, embedOk, search) ==
    retrieveTry(qt, embedOk, search)

\* retrieveRelevantMemoriesEnhanced: the catch block answers []
retrieveRelevantMemoriesEnhanced(qt, embedOk, search) ==
    LET r == retrieveTry(qt, embedOk, search) IN
    IF r.threw THEN [r EXCEPT !.threw = FALSE, !.memories = <<>>] ELSE r

\* the try block of getUserContext: read is what getMemories does
getUserContextTry(userId, read) ==
    IF read.threw THEN [threw |-> TRUE, context |-> Null]
    ELSE IF read.result.memories = {} THEN [threw |-> FALSE, context |-> Null]
    ELSE [threw |-> FALSE,
          context |->
            <<[user_id |-> userId,
               known_preferences |-> extractUserPreferences(read.result.memories),
               conversation_history_length |-> read.result.total,
               relationship_level |->
                    determineRelationshipLevel(read.result.total)]>>]

\* getUserContext: the catch block answers null
getUserContext(userId, read) ==
    LET r == getUserContextTry(userId, read) IN
    IF r.threw THEN [threw |-> FALSE, context |-> Null] ELSE r

-----------------------------------------------------------------------------
(* TwinService learning helpers *)

extractTagsFromMessage(message) ==
    LET lower == toLowerCase(message) IN
    {k \in {"music", "code", "project", "food", "work", "tech", "ai", "programming"} :
        Includes(lower, k)}

extractQuestionTypeInsights(message, qt) ==
    LET lower == toLowerCase(message) IN
    CASE qt = "personal" ->
            (IF Includes(lower, "music") \/ Includes(lower, "song")
             THEN {"music_interest"} ELSE {})
            \cup (IF Includes(lower, "tech") \/ Includes(lower, "programming")
                  THEN {"technology_interest"} ELSE {})
      [] qt = "technical" ->
            (IF Includes(lower, "javascript") \/ Includes(lower, "js")
             THEN {"javascript_interest"} ELSE {})
            \cup (IF Includes(lower, "python") THEN {"python_interest"} ELSE {})
            \cup (IF Includes(lower, "react") \/ Includes(lower, "nextjs")
                  THEN {"frontend_interest"} ELSE {})
      [] qt = "deep" ->
            (IF Includes(lower, "ai") \/ Includes(lower, "artificial intelligence")
             THEN {"ai_philosophy_interest"} ELSE {})
            \cup (IF Includes(lower, "future") \/ Includes(lower, "technology")
                  THEN {"future_tech_interest"} ELSE {})
      [] qt = "specific" ->
            (IF Includes(lower, "today") \/ Includes(lower, "recently")
             THEN {"current_events_interest"} ELSE {})
      [] OTHER ->
            (IF Len(message) < 20 THEN {"prefers_brief_communication"} ELSE {})
            \cup (IF Includes(message, "?") THEN {"asks_questions"} ELSE {})

\* calculateLengthScore with < in place of <= in its first test
calculateLengthScore_strict(actualWords, targetConfig) ==
    IF actualWords * 10 < targetConfig.target_words * 12 THEN 10
    ELSE IF actualWords <= targetConfig.max_words THEN 8
    ELSE IF actualWords * 2 <= targetConfig.max_words * 3 THEN 6
    ELSE 3

\* calculateLengthScore, in tenths; target_words * 1.2 and max_words * 1.5 are
\* whole numbers for every configured category
calculateLengthScore(actualWords, targetConfig) ==
    IF actualWords * 10 <= targetConfig.target_words * 12 THEN 10
    ELSE IF actualWords <= targetConfig.max_words THEN 8
    ELSE IF actualWords * 2 <= targetConfig.max_words * 3 THEN 6
    ELSE 3

assessResponseQuality(response, qt) ==
    calculateLengthScore(SplitBlankCount(response),
                         COMMUNICATION_STYLE_response_length[qt])

detectResponseTone(response) ==
    IF Includes(response, "!") /\ Includes(response, "?") THEN "enthusiastic"
    ELSE IF Includes(response, "?") THEN "curious"
    ELSE IF Len(response) > 200 THEN "detailed"
    ELSE "conversational"

getAppliedContext(memories) ==
    [i \in 1..Len(memories) |->
        memories[i].type \o ": "
        \o SubSeq(memories[i].content, 1, Min(50, Len(memories[i].content))) \o "..."]

userInputMemory(req, qt, id) ==
    [id |-> id, content |-> req.message, type |-> "user_input", subject |-> "user",
     user_id |-> req.user_id, tags |-> extractTagsFromMessage(req.message),
     visibility |-> "private", mood |-> None]

\* patternMemory that anyone may read
patternMemory_public(qt, id) ==
    [id |-> id, content |-> "Successful " \o qt \o " response pattern",
     type |-> "system", subject |-> "self", user_id |-> None,
     tags |-> {"conversation_pattern", qt}, visibility |-> "public", mood |-> None]

patternMemory(qt, id) ==
    [id |-> id, content |-> "Successful " \o qt \o " response pattern",
     type |-> "system", subject |-> "self", user_id |-> None,
     tags |-> {"conversation_pattern", qt}, visibility |-> "private", mood |-> None]

-----------------------------------------------------------------------------
(* Inputs of the chat route *)

RECURSIVE Rep(_, _)
Rep(s, n) ==
    IF n = 0 THEN ""
    ELSE LET h == Rep(s, n \div 2) IN h \o h \o (IF n % 2 = 1 THEN s ELSE "")

MaxMessageLength == 4000

ChatMessages ==
    {"hey what's up", "what do you like?", "what music do you like",
     "tell me more", "   hi there   "}

\* the messages a returning user sends with their user_id
ReturningMessages == {"what music do you like", "tell me more"}

\* JSON bodies a client may post
RequestBodies ==
    {[has_message |-> FALSE, is_string |-> FALSE, message |-> "",
      user_id |-> None, conversation_id |-> None],
     [has_message |-> TRUE,  is_string |-> FALSE, message |-> "42",
      user_id |-> None, conversation_id |-> None],
     [has_message |-> TRUE,  is_string |-> TRUE,  message |-> "",
      user_id |-> "u1", conversation_id |-> "c1"],
     [has_message |-> TRUE,  is_string |-> TRUE,  message |-> "   ",
      user_id |-> "u1", conversation_id |-> "c1"],
     [has_message |-> TRUE,  is_string |-> TRUE,
      message |-> Rep("a", MaxMessageLength + 1),
      user_id |-> "u1", conversation_id |-> "c1"]}
    \cup {[has_message |-> TRUE, is_string |-> TRUE, message |-> m,
           user_id |-> None, conversation_id |-> None] : m \in ChatMessages}
    \cup {[has_message |-> TRUE, is_string |-> TRUE, message |-> m,
           user_id |-> "u1", conversation_id |-> "c1"] : m \in ReturningMessages}

\* what the generation provider may answer
ProviderResponses ==
    {"", "Doing great! What about you?", "word" \o Rep(" word", 49)}

\* messages of the errors the generation provider may throw
ProviderErrors ==
    {"[503 Service Unavailable] The model is overloaded. Please try again later.",
     "fetch failed: network timeout",
     "API key not valid. Please pass a valid API key."}

\* the calls a turn has made to the providers and to the store so far, the
\* failure of its retrieval (embedding or search), the error its generation
\* call ended with, the call that failed inside its learning step, and the
\* steps of chat it has entered, in the order it entered them
NoCalls == [classify |-> 0, generate |-> 0, embed |-> 0, search |-> 0,
            read |-> 0, insert |-> 0,
            retrievalFailure |-> None, generateError |-> None,
            learnFailure |-> None, stages |-> <<>>]

NoRequest == [message |-> "", user_id |-> None, conversation_id |-> None]

\* no body received
NoBody == [has_message |-> FALSE, is_string |-> FALSE, message |-> "none",
           user_id |-> None, conversation_id |-> None]
NoReceived == [body |-> NoBody, store |-> <<>>]
NoResult == [kind |-> "none"]
NoSvcCall == [fn |-> "none"]
NoMemoryRequest == [fn |-> "none"]
NoMemoryCalls == [health |-> 0, embed |-> 0, insert |-> 0, inserted |-> 0]

freshId(rows) == "mem" \o ToString(Len(rows) + 1)

-----------------------------------------------------------------------------
(* POST /api/twin/chat and TwinService.chat *)

ChatInit ==
    /\ pc = "idle"
    /\ turn = 0
    /\ request = NoRequest
    /\ questionType = None
    /\ relevantMemories = <<>>
    /\ userContext = Null
    /\ systemPrompt = <<>>
    /\ geminiResponse = NoResult
    /\ learningResults = NoResult
    /\ httpResponse = NoResult
    /\ calls = NoCalls
    /\ store = PersonaMemories
    /\ faults = 0
    /\ received = NoReceived

\* validate that does not look for a message of white space only
validate_noEmptyCheck(body) ==
    IF ~body.has_message \/ ~body.is_string \/ body.message = "" THEN "INVALID_INPUT"
    ELSE IF Len(body.message) > MaxMessageLength THEN "MESSAGE_TOO_LONG"
    ELSE "ok"

\* the validation result of POST for a body: an error code, or "ok"
validate(body) ==
    IF ~body.has_message \/ ~body.is_string \/ body.message = "" THEN "INVALID_INPUT"
    ELSE IF Len(trim(body.message)) = 0 THEN "EMPTY_MESSAGE"
    ELSE IF Len(body.message) > MaxMessageLength THEN "MESSAGE_TOO_LONG"
    ELSE "ok"

\* POST up to the call of TwinService.chat
Post ==
    /\ pc = "idle"
    /\ turn < MaxTurns
    /\ \E body \in RequestBodies :
        LET verdict == validate(body) IN
        /\ received' = [body |-> body, store |-> store]
        /\ IF verdict # "ok"
           THEN /\ httpResponse' = [kind |-> "error", success |-> FALSE,
                                    status |-> 400, error |-> verdict,
                                    message |-> verdict]
                /\ pc' = "responded"
                /\ request' = NoRequest
           ELSE /\ request' =
                    [message |-> body.message,
                     user_id |-> IF body.user_id = None
                                 THEN "anon_" \o ToString(turn + 1)
                                 ELSE body.user_id,
                     conversation_id |-> IF body.conversation_id = None
                                         THEN "conv_" \o ToString(turn + 1)
                                         ELSE body.conversation_id]
                /\ pc' = "classify"
                /\ httpResponse' = NoResult
    /\ turn' = turn + 1
    /\ calls' = NoCalls
    /\ UNCHANGED <<questionType, relevantMemories, userContext, systemPrompt,
                   geminiResponse, learningResults, store, faults, svcVars,
                   memVars, concVars, hookVars>>

\* an exception inside chat: its catch block rethrows and POST answers 500
processingError(message) ==
    [kind |-> "error", success |-> FALSE, status |-> 500,
     error |-> "PROCESSING_ERROR", message |-> message]

\* step 1 of chat: classifyQuestion
ClassifyQuestion ==
    /\ pc = "classify"
    /\ \E outcome \in LlmOutcomes :
        LET result == classifyQuestion(request.message, outcome)
            failed == IF result.llmCalls = 1 /\ outcome.threw THEN 1 ELSE 0
        IN  /\ faults + failed <= MaxFaults
            /\ faults' = faults + failed
            /\ calls' = [calls EXCEPT !.classify = @ + result.llmCalls,
                                      !.stages = Append(@, "classify")]
            /\ IF result.threw
               THEN /\ httpResponse' = processingError("classification failed")
                    /\ pc' = "responded"
                    /\ UNCHANGED questionType
               ELSE /\ questionType' = result.type
                    /\ pc' = "retrieve"
                    /\ UNCHANGED httpResponse
    /\ UNCHANGED <<turn, request, received, relevantMemories, userContext, systemPrompt,
                   geminiResponse, learningResults, store, svcVars,
                   memVars, concVars, hookVars>>

SearchOutcomes(rows, qt) ==
    {[threw |-> TRUE, rows |-> <<>>]}
    \cup {[threw |-> FALSE, rows |-> r] :
            r \in searchMemories(rows, [limit |-> MEMORY_CONFIG_count[qt],
                                        subject |-> "self",
                                        visibility |-> "public"])}

\* step 2 of chat: retrieveRelevantMemoriesEnhanced
RetrieveRelevantMemoriesEnhanced ==
    /\ pc = "retrieve"
    /\ \E embedOk \in BOOLEAN, search \in SearchOutcomes(store, questionType) :
        LET result == retrieveRelevantMemoriesEnhanced(questionType, embedOk, search)
            failed == IF result.embeds = 1 /\ ~embedOk THEN 1
                      ELSE IF result.searches = 1 /\ search.threw THEN 1 ELSE 0
        IN  /\ faults + failed <= MaxFaults
            /\ faults' = faults + failed
            /\ calls' = [calls EXCEPT !.embed = @ + result.embeds,
                                      !.search = @ + result.searches,
                                      !.retrievalFailure =
                                          IF result.embeds = 1 /\ ~embedOk
                                          THEN "embedding"
                                          ELSE IF result.searches = 1 /\ search.threw
                                          THEN "search" ELSE None,
                                      !.stages = Append(@, "retrieve_memories")]
            /\ IF result.threw
               THEN /\ httpResponse' = processingError("memory retrieval failed")
                    /\ pc' = "responded"
                    /\ UNCHANGED relevantMemories
               ELSE /\ relevantMemories' = result.memories
                    /\ pc' = "context"
                    /\ UNCHANGED httpResponse
    /\ UNCHANGED <<turn, request, received, questionType, userContext, systemPrompt,
                   geminiResponse, learningResults, store, svcVars,
                   memVars, concVars, hookVars>>

ReadOutcomes(rows, userId) ==
    {[threw |-> TRUE, result |-> [memories |-> {}, total |-> 0]],
     [threw |-> FALSE,
      result |-> getMemories(rows, [user_id |-> userId, type |-> "user_input"])]}

\* step 3 of chat: getUserContext, skipped when the request has no user_id
GetUserContext ==
    /\ pc = "context"
    /\ IF request.user_id = None
       THEN /\ userContext' = Null
            /\ pc' = "prompt"
            /\ UNCHANGED <<calls, faults, httpResponse>>
       ELSE \E read \in ReadOutcomes(store, request.user_id) :
            LET result == getUserContext(request.user_id, read)
                failed == IF read.threw THEN 1 ELSE 0
            IN  /\ faults + failed <= MaxFaults
                /\ faults' = faults + failed
                /\ calls' = [calls EXCEPT !.read = @ + 1,
                                          !.stages = Append(@, "load_user_context")]
                /\ IF result.threw
                   THEN /\ httpResponse' = processingError("user context failed")
                        /\ pc' = "responded"
                        /\ UNCHANGED userContext
                   ELSE /\ userContext' = result.context
                        /\ pc' = "prompt"
                        /\ UNCHANGED httpResponse
    /\ UNCHANGED <<turn, request, received, questionType, relevantMemories, systemPrompt,
                   geminiResponse, learningResults, store, svcVars,
                   memVars, concVars, hookVars>>

\* steps 4 and 5 of chat: the prompt builders
BuildPrompt ==
    /\ pc = "prompt"
    /\ systemPrompt' =
            TS_buildEnhancedSystemPrompt(questionType, relevantMemories, userContext)
    /\ pc' = "generate"
    /\ calls' = [calls EXCEPT !.stages = Append(@, "build_prompt")]
    /\ UNCHANGED <<turn, request, received, questionType, relevantMemories, userContext,
                   geminiResponse, learningResults, httpResponse, store,
                   faults, svcVars,
                   memVars, concVars, hookVars>>

\* generateEnhancedTwinResponse answering an error of the provider with a
\* canned text instead of throwing
TS_generateEnhancedTwinResponse_swallow(outcome) ==
    IF outcome.threw
    THEN [kind |-> "ok", response |-> "Something went wrong, try again?"]
    ELSE [kind |-> "ok", response |-> outcome.response]

\* TwinService.generateEnhancedTwinResponse: the possible results for what the
\* provider did (returned a text or threw)
TS_generateEnhancedTwinResponse(outcome) ==
    IF outcome.threw
    THEN [kind |-> "thrown",
          message |-> "Failed to generate response: " \o outcome.message]
    ELSE [kind |-> "ok", response |-> outcome.response]

ProviderOutcomes ==
    {[threw |-> FALSE, response |-> r, message |-> ""] : r \in ProviderResponses}
    \cup {[threw |-> TRUE, response |-> "", message |-> e] : e \in ProviderErrors}

\* step 6 of chat; an exception leaves chat through its catch block, which
\* rethrows, and POST answers with the error envelope
GenerateEnhancedTwinResponse ==
    /\ pc = "generate"
    /\ \E outcome \in ProviderOutcomes :
        LET result == TS_generateEnhancedTwinResponse(outcome) IN
        /\ outcome.threw => faults < MaxFaults
        /\ faults' = IF outcome.threw THEN faults + 1 ELSE faults
        /\ geminiResponse' = result
        /\ IF result.kind = "thrown"
           THEN /\ httpResponse' = processingError(result.message)
                /\ pc' = "responded"
           ELSE /\ pc' = "learn"
                /\ UNCHANGED httpResponse
        /\ calls' = [calls EXCEPT !.generate = @ + 1,
                                  !.generateError = IF outcome.threw
                                                    THEN outcome.message ELSE None,
                                  !.stages = Append(@, "generate")]
    /\ UNCHANGED <<turn, request, received, questionType, relevantMemories, userContext,
                   systemPrompt, learningResults, store, svcVars,
                   memVars, concVars, hookVars>>

\* the condition of step 1 of enhancedLearnFromInteraction, tested on the
\* message as it was sent
shouldStoreUserMessage_untrimmed(req) ==
    req.user_id # None /\ Len(req.message) > 10

\* the condition of step 1 of enhancedLearnFromInteraction
shouldStoreUserMessage(req) ==
    req.user_id # None /\ Len(trim(req.message)) > 10

\* enhancedLearnFromInteraction: e1, s1 tell whether the embedding and the
\* insert of the user message succeed, e2, s2 the same for the pattern memory
learnOutcome(req, qt, response, rows, e1, s1, e2, s2) ==
    LET doStore == shouldStoreUserMessage(req)
        save1 == saveMemory(rows, userInputMemory(req, qt, freshId(rows)), s1)
        failed1 == doStore /\ (~e1 \/ save1.threw)
        rows1 == IF doStore THEN save1.rows ELSE rows
        quality == assessResponseQuality(response, qt)
        doPattern == quality > 7
        save2 == saveMemory(rows1, patternMemory(qt, freshId(rows1)), s2)
        rows2 == IF doPattern /\ e2 THEN save2.rows ELSE rows1
    IN  IF failed1
        THEN [rows |-> rows,
              embeds |-> 1, inserts |-> IF e1 THEN 1 ELSE 0,
              failure |-> IF e1 THEN "insert" ELSE "embedding",
              result |-> [kind |-> "learned", new_memories_created |-> 0,
                          user_insights_gained |-> {},
                          response_quality_score |-> 0,
                          conversation_patterns_stored |-> 0]]
        ELSE [rows |-> rows2,
              embeds |-> (IF doStore THEN 1 ELSE 0) + (IF doPattern THEN 1 ELSE 0),
              inserts |-> (IF doStore THEN 1 ELSE 0)
                          + (IF doPattern /\ e2 THEN 1 ELSE 0),
              failure |-> IF doPattern /\ ~e2 THEN "pattern_embedding"
                          ELSE IF doPattern /\ save2.threw THEN "pattern_insert"
                          ELSE None,
              result |-> [kind |-> "learned",
                          new_memories_created |-> IF doStore THEN 1 ELSE 0,
                          user_insights_gained |->
                              extractQuestionTypeInsights(req.message, qt),
                          response_quality_score |-> quality,
                          conversation_patterns_stored |->
                              IF doPattern THEN 1 ELSE 0]]

\* the flags that do not decide anything in this run are fixed to TRUE
learnFlagsRelevant(req, qt, response, e1, s1, e2, s2) ==
    LET doStore == shouldStoreUserMessage(req)
        step1ok == ~doStore \/ (e1 /\ s1)
        doPattern == step1ok /\ assessResponseQuality(response, qt) > 7
    IN  /\ ~doStore => e1
        /\ ~(doStore /\ e1) => s1
        /\ ~doPattern => e2
        /\ ~(doPattern /\ e2) => s2

\* step 7 of chat and the success envelope returned through POST
EnhancedLearnFromInteraction ==
    /\ pc = "learn"
    /\ \E e1, s1, e2, s2 \in BOOLEAN :
        LET failed == Cardinality({i \in 1..4 : ~(<<e1, s1, e2, s2>>[i])})
            out == learnOutcome(request, questionType, geminiResponse.response,
                                store, e1, s1, e2, s2)
        IN  /\ learnFlagsRelevant(request, questionType, geminiResponse.response,
                                  e1, s1, e2, s2)
            /\ faults + failed <= MaxFaults
            /\ faults' = faults + failed
            /\ store' = out.rows
            /\ learningResults' = out.result
            /\ calls' = [calls EXCEPT !.embed = @ + out.embeds,
                                      !.insert = @ + out.inserts,
                                      !.learnFailure = out.failure,
                                      !.stages = Append(@, "learn")]
            /\ httpResponse' =
                [kind |-> "chat", success |-> TRUE, status |-> 200,
                 response |-> geminiResponse.response,
                 conversation_id |-> request.conversation_id,
                 memories_used_count |-> Len(relevantMemories),
                 memories_used_types |-> {relevantMemories[i].type :
                                            i \in DOMAIN relevantMemories},
                 tone |-> detectResponseTone(geminiResponse.response),
                 context_applied |-> getAppliedContext(relevantMemories),
                 new_memories_created |-> out.result.new_memories_created,
                 user_insights_gained |-> out.result.user_insights_gained]
    /\ pc' = "responded"
    /\ UNCHANGED <<turn, request, received, questionType, relevantMemories, userContext,
                   systemPrompt, geminiResponse, svcVars,
                   memVars, concVars, hookVars>>

\* the route is ready for the next request
NextRequest ==
    /\ pc = "responded"
    /\ pc' = "idle"
    /\ request' = NoRequest
    /\ received' = NoReceived
    /\ questionType' = None
    /\ relevantMemories' = <<>>
    /\ userContext' = Null
    /\ systemPrompt' = <<>>
    /\ geminiResponse' = NoResult
    /\ learningResults' = NoResult
    /\ httpResponse' = NoResult
    /\ calls' = NoCalls
    /\ faults' = 0
    /\ UNCHANGED <<turn, store, svcVars,
                   memVars, concVars, hookVars>>

\* nothing asked of the memories route, no chat request in a slot
MemIdle ==
    /\ posts = 0
    /\ memoryRequest = NoMemoryRequest
    /\ memoryResponse = NoResult
    /\ memoryCalls = NoMemoryCalls

ConcIdle == reqs = <<>>

\* useTwinChat after its first render: the initial state, the effect has set
\* hasGreeted and started the timer of the greeting
HookMounted ==
    [messages |-> <<>>, isLoading |-> FALSE, isStreaming |-> FALSE,
     currentConversation |-> "default", error |-> None,
     closure |-> [isLoading |-> FALSE, currentConversation |-> "default"],
     abortController |-> 0, hasGreeted |-> TRUE, greetingTimers |-> 1,
     requests |-> <<>>, streams |-> {}, ids |-> 0,
     calls |-> 0, clears |-> 0, lastCall |-> [content |-> None, outcome |-> None]]

HookIdle == hook = HookMounted

Init ==
    /\ ChatInit
    /\ svcCall = NoSvcCall
    /\ svcResult = NoResult
    /\ MemIdle
    /\ ConcIdle
    /\ HookIdle

Next ==
    \/ Post
    \/ ClassifyQuestion
    \/ RetrieveRelevantMemoriesEnhanced
    \/ GetUserContext
    \/ BuildPrompt
    \/ GenerateEnhancedTwinResponse
    \/ EnhancedLearnFromInteraction
    \/ NextRequest

Spec == Init /\ [][Next]_vars

-----------------------------------------------------------------------------
(* Direct calls of the service methods *)

RECURSIVE Join(_)
Join(parts) ==
    IF Len(parts) = 0 THEN ""
    ELSE IF Len(parts) = 1 THEN parts[1]
    ELSE parts[1] \o " " \o Join(Tail(parts))

Composed(fragments, n) ==
    UNION {{Join(parts) : parts \in [1..k -> fragments]} : k \in 1..n}

MessageFragments ==
    {"Hey", "what's up", "what do you like?", "I love", "stuff", "music", "code",
     "believe", "recently", "tell me more", "they", "what music do you like",
     "favorite"}

SvcMessages == Composed(MessageFragments, MaxFrags)

ErrorFragments ==
    {"503", "Service Unavailable", "429", "overloaded", "rate limit", "quota",
     "network", "timeout", "connection", "ENOTFOUND", "invalid model",
     "Unexpected token"}

ErrorMessages == Composed(ErrorFragments, MaxErrParts)

GenUserMessages ==
    {"hi", "what music do you like", "show me your code?",
     "tell me everything about how you plan your week and your days"}

GenOutcomes ==
    {[threw |-> TRUE, message |-> e, response |-> "", tokens_used |-> 0] :
        e \in ErrorMessages}
    \cup {[threw |-> FALSE, message |-> "", response |-> r, tokens_used |-> 42] :
            r \in {"", "Doing great! What about you?"}}

SvcMemorySets ==
    {<<>>} \cup {[i \in 1..Len(rows) |-> toRetrievedMemory(rows[i])] :
                    rows \in searchMemories(PersonaMemories,
                        [limit |-> 8, subject |-> "self", visibility |-> "public"])}

SvcUserContexts ==
    {Null} \cup {<<[user_id |-> "u1", known_preferences |-> {"music"},
                    conversation_history_length |-> n,
                    relationship_level |-> determineRelationshipLevel(n)]>> :
                 n \in {1, 5, 20}}

\* word counts on both sides of every threshold of every category
QualityWordCounts ==
    {1, 48, 80, 130}
    \cup UNION {LET c == COMMUNICATION_STYLE_response_length[qt]
                    a == (c.target_words * 12) \div 10
                    b == c.max_words
                    d == (c.max_words * 3) \div 2
                IN  {a, a + 1, b, b + 1, d, d + 1} : qt \in QuestionTypes}

\* a response of n words
WordsOf(word, n) == word \o Rep(" " \o word, n - 1)

QualityWords == {"ok", "Sure!"}

MaxUserMemories == 2    \* user memories a read returns

\* the tag arrays of a stored user memory
UserTagArrays ==
    {<<>>, <<"music">>, <<"music", "code">>, <<"code", "music">>, <<"ai", "ai">>}

RECURSIVE SeqsUpTo(_, _)
SeqsUpTo(S, n) ==
    IF n = 0 THEN {<<>>}
    ELSE LET shorter == SeqsUpTo(S, n - 1) IN
         shorter \cup {Append(q, x) : q \in shorter, x \in S}

\* the counts DatabaseService.getMemories may report
InteractionCounts == {0, 1, 4, 5, 6, 19, 20, 21, 60}

\* what DatabaseService.getMemories does for getUserContext
UserReads ==
    {[threw |-> TRUE, memories |-> <<>>, total |-> 0]}
    \cup {[threw |-> FALSE, memories |-> ms, total |-> n] :
            ms \in SeqsUpTo({[tags |-> t] : t \in UserTagArrays}, MaxUserMemories),
            n \in InteractionCounts}

\* [...new Set(xs)]: the first occurrence of each element, in order
RECURSIVE uniqueInOrder(_)
uniqueInOrder(xs) ==
    IF xs = <<>> THEN <<>>
    ELSE LET front == uniqueInOrder(SubSeq(xs, 1, Len(xs) - 1))
             last == xs[Len(xs)]
         IN  IF \E i \in DOMAIN front : front[i] = last THEN front
             ELSE Append(front, last)

\* the tags of the memories pushed one after the other
RECURSIVE pushTags(_)
pushTags(memories) ==
    IF memories = <<>> THEN <<>>
    ELSE pushTags(SubSeq(memories, 1, Len(memories) - 1))
         \o memories[Len(memories)].tags

\* MemoryRetrievalService.extractUserPreferences
MRS_extractUserPreferences(memories) == uniqueInOrder(pushTags(memories))

\* MemoryRetrievalService.getUserContext: the catch block answers null
MRS_getUserContext(userId, read) ==
    IF read.threw \/ Len(read.memories) = 0 THEN Null
    ELSE <<[user_id |-> userId,
            known_preferences |-> MRS_extractUserPreferences(read.memories),
            conversation_history_length |-> read.total,
            relationship_level |-> determineRelationshipLevel(read.total)]>>

\* memories a retrieval may hand to the clarification: none, one, two, three
\* and more than three domains can be populated
ClarifyMemories ==
    {[content |-> c[1], tags |-> c[2], relevance_score |-> r] :
        c \in {<<"I love listening to indie music while coding", {"music"}>>,
               <<"Spent the weekend at the lake", {}>>,
               <<"My favorite album is Kind of Blue by Miles Davis, every day",
                 {"Songs"}>>,
               <<"Tried a new ramen restaurant downtown", {"food"}>>,
               <<"Planning a trip with a novel and a film", {}>>},
        r \in {5, 9}}

MaxEmbeddingLength == 8000

\* lib/embeddings createEmbeddings: the text goes to the embedding model as it
\* is; modelOk tells whether the model answers
createEmbeddings(text, modelOk) ==
    [sent |-> <<text>>, threw |-> ~modelOk]

\* POST /api/embeddings
embeddingsRoute(text, modelOk) ==
    IF text = "" \/ Len(text) > MaxEmbeddingLength
    THEN [sent |-> <<>>, threw |-> TRUE]
    ELSE createEmbeddings(text, modelOk)

\* EmbeddingsService.generateEmbeddings: the client wrapper of the route
generateEmbeddings(text, modelOk) ==
    IF text = "" \/ Len(trim(text)) = 0 \/ Len(text) > MaxEmbeddingLength
    THEN [sent |-> <<>>, threw |-> TRUE]
    ELSE embeddingsRoute(trim(text), modelOk)

\* the text storeConversationPattern embeds
patternEmbeddingText(qt, message, response) ==
    qt \o ": " \o message \o " -> " \o response

\* texts handed to the route and to its client wrapper
EmbeddingTexts ==
    {"", "   ", " Hello, world! ", Rep("a", MaxEmbeddingLength),
     Rep("a", MaxEmbeddingLength + 1)}

\* chat messages the route accepts and answers of the generation provider
EmbeddedMessages == {"what music do you like", Rep("a", MaxMessageLength)}

EmbeddedResponses == {"Doing great! What about you?", Rep("line\n", 800)}

\* the embedding requests of the system: where each is made and with what
EmbeddingCalls ==
    {[fn |-> "embed", via |-> v, text |-> t] :
        v \in {"generateEmbeddings", "POST /api/embeddings"}, t \in EmbeddingTexts}
    \cup {[fn |-> "embed", via |-> v, text |-> m] :
            v \in {"retrieveRelevantMemoriesEnhanced", "storeUserMessageEnhanced"},
            m \in EmbeddedMessages}
    \cup {[fn |-> "embed", via |-> "storeConversationPattern",
           text |-> patternEmbeddingText("casual", m, r)] :
            m \in EmbeddedMessages, r \in EmbeddedResponses}

SvcCalls ==
    {[fn |-> "classifyQuestion", message |-> m, outcome |-> o] :
        m \in SvcMessages, o \in LlmOutcomes}
    \cup EmbeddingCalls
    \cup {[fn |-> "generateClarificationResponse", memories |-> ms] :
            ms \in SeqsUpTo(ClarifyMemories, MaxResults)}
    \cup {[fn |-> "getUserContext", userId |-> "u1", read |-> r] : r \in UserReads}
    \cup {[fn |-> "assessResponseQuality", questionType |-> qt, words |-> n,
           response |-> WordsOf(w, n)] :
            qt \in QuestionTypes, n \in QualityWordCounts, w \in QualityWords}
    \cup {[fn |-> "detectAmbiguity", message |-> m] : m \in SvcMessages}
    \cup {[fn |-> "generateEnhancedTwinResponse", userMessage |-> m, outcome |-> o] :
            m \in GenUserMessages, o \in GenOutcomes}
    \cup {[fn |-> "buildEnhancedSystemPrompt", questionType |-> qt,
           memories |-> ms, userContext |-> ctx] :
            qt \in QuestionTypes, ms \in SvcMemorySets, ctx \in SvcUserContexts}

SvcInit ==
    /\ ChatInit
    /\ svcCall \in SvcCalls
    /\ svcResult = NoResult
    /\ MemIdle
    /\ ConcIdle
    /\ HookIdle

\* QuestionClassificationService.classifyQuestion
SvcClassifyQuestion ==
    /\ svcCall.fn = "classifyQuestion"
    /\ svcResult = NoResult
    /\ LET result == classifyQuestion(svcCall.message, svcCall.outcome) IN
       svcResult' = [kind |-> "classified", type |-> result.type,
                     llmCalls |-> result.llmCalls, threw |-> result.threw]
    /\ UNCHANGED <<svcCall, chatVars, memVars, concVars, hookVars>>

\* AmbiguityDetectionService.detectAmbiguity
SvcDetectAmbiguity ==
    /\ svcCall.fn = "detectAmbiguity"
    /\ svcResult = NoResult
    /\ LET result == detectAmbiguity(svcCall.message) IN
       svcResult' = [kind |-> "ambiguity", isAmbiguous |-> result.isAmbiguous,
                     confidence |-> result.confidence, reasons |-> result.reasons]
    /\ UNCHANGED <<svcCall, chatVars, memVars, concVars, hookVars>>

\* ResponseGeneratorService.generateEnhancedTwinResponse
SvcGenerateEnhancedTwinResponse ==
    /\ svcCall.fn = "generateEnhancedTwinResponse"
    /\ svcResult = NoResult
    /\ svcResult' \in RG_generateEnhancedTwinResponse(svcCall.outcome,
                                                     svcCall.userMessage)
    /\ UNCHANGED <<svcCall, chatVars, memVars, concVars, hookVars>>

\* PromptBuilderService.buildEnhancedSystemPrompt
SvcBuildEnhancedSystemPrompt ==
    /\ svcCall.fn = "buildEnhancedSystemPrompt"
    /\ svcResult = NoResult
    /\ svcResult' = [kind |-> "prompt",
                     prompt |-> PB_buildEnhancedSystemPrompt(svcCall.questionType,
                                    svcCall.memories, svcCall.userContext)]
    /\ UNCHANGED <<svcCall, chatVars, memVars, concVars, hookVars>>

\* the response quality assessment of the learning step
SvcAssessResponseQuality ==
    /\ svcCall.fn = "assessResponseQuality"
    /\ svcResult = NoResult
    /\ svcResult' = [kind |-> "quality",
                     score |-> assessResponseQuality(svcCall.response,
                                                     svcCall.questionType)]
    /\ UNCHANGED <<svcCall, chatVars, memVars, concVars, hookVars>>

\* MemoryRetrievalService.getUserContext
SvcGetUserContext ==
    /\ svcCall.fn = "getUserContext"
    /\ svcResult = NoResult
    /\ svcResult' = [kind |-> "userContext",
                     context |-> MRS_getUserContext(svcCall.userId, svcCall.read)]
    /\ UNCHANGED <<svcCall, chatVars, memVars, concVars, hookVars>>

\* AmbiguityDetectionService.generateClarificationResponse
SvcGenerateClarificationResponse ==
    /\ svcCall.fn = "generateClarificationResponse"
    /\ svcResult = NoResult
    /\ svcResult' = [kind |-> "clarification",
                     response |-> generateClarificationResponse(svcCall.memories)]
    /\ UNCHANGED <<svcCall, chatVars, memVars, concVars, hookVars>>

\* an embedding request, made where svcCall.via says
SvcEmbed ==
    /\ svcCall.fn = "embed"
    /\ svcResult = NoResult
    /\ \E modelOk \in BOOLEAN :
        LET result ==
                CASE svcCall.via = "generateEmbeddings" ->
                        generateEmbeddings(svcCall.text, modelOk)
                  [] svcCall.via = "POST /api/embeddings" ->
                        embeddingsRoute(svcCall.text, modelOk)
                  [] OTHER -> createEmbeddings(svcCall.text, modelOk)
        IN  /\ result.sent = <<>> => modelOk
            /\ svcResult' = [kind |-> "embedding", sent |-> result.sent,
                             threw |-> result.threw]
    /\ UNCHANGED <<svcCall, chatVars, memVars, concVars, hookVars>>

SvcNext ==
    \/ SvcAssessResponseQuality
    \/ SvcEmbed
    \/ SvcGenerateClarificationResponse
    \/ SvcGetUserContext
    \/ SvcClassifyQuestion
    \/ SvcDetectAmbiguity
    \/ SvcGenerateEnhancedTwinResponse
    \/ SvcBuildEnhancedSystemPrompt

SvcSpec == SvcInit /\ [][SvcNext]_vars

-----------------------------------------------------------------------------
(* POST /api/memories, direct calls of saveMemory and the write-back of chat *)

MAX_CONTENT_LENGTH == 2000
MAX_TAGS == 10
MAX_TAG_LENGTH == 30
MAX_MOOD_LENGTH == 50

MaxPosts == 2       \* writes requested outside the chat route per behaviour

MemoryTypes == {"diary", "fact", "preference"}
Visibilities == {"public", "close_friends", "private"}

\* the errors for the content of a request; an absent content is None
contentErrors(req) ==
    IF req.content = None \/ req.content = ""
    THEN {"Content is required and must be a string"}
    ELSE IF Len(trim(req.content)) = 0 THEN {"Content cannot be empty"}
    ELSE IF Len(trim(req.content)) > MAX_CONTENT_LENGTH
    THEN {"Content must be 2000 characters or less"}
    ELSE {}

\* the error of the first tag that is empty or too long, if any
tagErrors(req) ==
    LET bad == {i \in DOMAIN req.tags :
                    \/ Len(trim(req.tags[i])) = 0
                    \/ Len(trim(req.tags[i])) > MAX_TAG_LENGTH}
        first == CHOOSE i \in bad : \A j \in bad : i <= j
    IN  (IF Len(req.tags) > MAX_TAGS THEN {"Maximum 10 tags allowed"} ELSE {})
        \cup (IF bad = {} THEN {}
              ELSE IF Len(trim(req.tags[first])) = 0
              THEN {"Tags cannot be empty"}
              ELSE {"Each tag must be 30 characters or less"})

otherErrors(req) ==
    (IF req.visibility \notin Visibilities
     THEN {"Visibility must be one of: public, close_friends, private"} ELSE {})
    \cup (IF req.mood # None /\ Len(trim(req.mood)) > MAX_MOOD_LENGTH
          THEN {"Mood must be 50 characters or less"} ELSE {})
    \cup tagErrors(req)

\* validateCreateRequest accepting any type
validateCreateRequest_noTypeCheck(req) ==
    contentErrors(req) \cup otherErrors(req)

\* MemoryService.validateCreateRequest: the set of its errors
validateCreateRequest(req) ==
    contentErrors(req)
    \cup (IF req.type \notin MemoryTypes
          THEN {"Type must be one of: diary, fact, preference"} ELSE {})
    \cup otherErrors(req)

sanitizeMemoryData(req) ==
    [content |-> trim(req.content),
     type |-> req.type,
     visibility |-> req.visibility,
     mood |-> IF req.mood = None \/ trim(req.mood) = "" THEN None
              ELSE trim(req.mood),
     tags |-> {toLowerCase(trim(req.tags[i])) : i \in DOMAIN req.tags}
              \ {""}]

createMemoryObject(req, id) ==
    [id |-> id, content |-> req.content, type |-> req.type,
     subject |-> "self", user_id |-> None, tags |-> req.tags,
     visibility |-> req.visibility, mood |-> req.mood]

createErrorResponse(error, status, errors) ==
    [kind |-> "memory_error", success |-> FALSE, error |-> error,
     status |-> status, validation_errors |-> errors]

\* the POST handler of /api/memories for a body, given whether the health
\* check, the embedding call and the insert succeed
postMemory(rows, body, healthy, embedOk, saveOk) ==
    IF ~healthy
    THEN [rows |-> rows,
          response |-> createErrorResponse("DATABASE_UNAVAILABLE", 503, {}),
          calls |-> [health |-> 1, embed |-> 0, insert |-> 0]]
    ELSE IF validateCreateRequest(body) # {}
    THEN [rows |-> rows,
          response |-> createErrorResponse("VALIDATION_ERROR", 400,
                                           validateCreateRequest(body)),
          calls |-> [health |-> 1, embed |-> 0, insert |-> 0]]
    ELSE IF ~embedOk
    THEN [rows |-> rows,
          response |-> createErrorResponse("EMBEDDING_FAILED", 502, {}),
          calls |-> [health |-> 1, embed |-> 1, insert |-> 0]]
    ELSE LET memoryWithEmbedding ==
                createMemoryObject(sanitizeMemoryData(body), freshId(rows))
             saved == saveMemory(rows, memoryWithEmbedding, saveOk)
         IN  IF saved.threw
             THEN [rows |-> rows,
                   response |-> createErrorResponse("DATABASE_SAVE_FAILED", 500, {}),
                   calls |-> [health |-> 1, embed |-> 1, insert |-> 1]]
             ELSE [rows |-> saved.rows,
                   response |-> [kind |-> "memory", success |-> TRUE,
                                 status |-> 201, memory |-> memoryWithEmbedding],
                   calls |-> [health |-> 1, embed |-> 1, insert |-> 1]]

\* bodies a client may post to /api/memories
MemoryBodies ==
    {[content |-> "Database connection test memory", type |-> "diary",
      visibility |-> "private", mood |-> "testing", tags |-> <<"test", "database">>],
     [content |-> "  I prefer dark roast coffee.  ", type |-> "preference",
      visibility |-> "public", mood |-> None, tags |-> <<"Coffee ", "coffee">>],
     [content |-> Rep("A", MAX_CONTENT_LENGTH) \o "  ", type |-> "fact",
      visibility |-> "close_friends", mood |-> " ", tags |-> <<>>],
     [content |-> "", type |-> "invalid_type",
      visibility |-> "public", mood |-> None, tags |-> <<>>],
     [content |-> Rep("A", MAX_CONTENT_LENGTH + 1), type |-> "diary",
      visibility |-> "public", mood |-> None, tags |-> <<>>],
     [content |-> "   ", type |-> "fact",
      visibility |-> "public", mood |-> None, tags |-> <<>>],
     [content |-> None, type |-> "fact",
      visibility |-> "public", mood |-> None, tags |-> <<>>],
     [content |-> "I said this in a chat", type |-> "user_input",
      visibility |-> "public", mood |-> None, tags |-> <<>>],
     [content |-> "Visible to everyone", type |-> "fact",
      visibility |-> "everyone", mood |-> None, tags |-> <<>>],
     [content |-> "A long mood", type |-> "diary", visibility |-> "private",
      mood |-> Rep("m", MAX_MOOD_LENGTH + 1), tags |-> <<"ok", "  ">>]}

\* POST /api/memories
PostMemory ==
    /\ posts < MaxPosts
    /\ \E body \in MemoryBodies, healthy, embedOk, saveOk \in BOOLEAN :
        LET out == postMemory(store, body, healthy, embedOk, saveOk) IN
        /\ out.calls.embed = 0 => embedOk
        /\ out.calls.insert = 0 => saveOk
        /\ store' = out.rows
        /\ memoryRequest' = [fn |-> "POST /api/memories", body |-> body,
                             healthy |-> healthy]
        /\ memoryResponse' = out.response
        /\ memoryCalls' = [health |-> out.calls.health, embed |-> out.calls.embed,
                           insert |-> out.calls.insert,
                           inserted |-> Len(out.rows) - Len(store)]
    /\ posts' = posts + 1
    /\ UNCHANGED <<pc, turn, request, received, questionType, relevantMemories,
                   userContext, systemPrompt, geminiResponse, learningResults,
                   httpResponse, calls, faults, svcVars, concVars, hookVars>>

\* rows a caller may hand to DatabaseService.saveMemory
DirectMemoryData ==
    {[id |-> "d1", content |-> "A note a user left", type |-> "user_input",
      subject |-> "user", user_id |-> None, tags |-> {}, visibility |-> "private",
      mood |-> None],
     [id |-> "d2", content |-> "A note a user left", type |-> "user_input",
      subject |-> "user", user_id |-> "u2", tags |-> {}, visibility |-> "private",
      mood |-> None],
     [id |-> "d3", content |-> " \n ", type |-> "system",
      subject |-> "self", user_id |-> None, tags |-> {}, visibility |-> "private",
      mood |-> None]}

\* a direct call of DatabaseService.saveMemory
SaveMemory ==
    /\ posts < MaxPosts
    /\ \E memoryData \in DirectMemoryData, reachable \in BOOLEAN :
        LET saved == saveMemory(store, [memoryData EXCEPT !.id = freshId(store)],
                                reachable) IN
        /\ store' = saved.rows
        /\ memoryRequest' = [fn |-> "saveMemory", body |-> memoryData,
                             healthy |-> reachable]
        /\ memoryResponse' = [kind |-> IF saved.threw THEN "thrown" ELSE "saved",
                              success |-> ~saved.threw]
        /\ memoryCalls' = [health |-> 0, embed |-> 0, insert |-> 1,
                           inserted |-> Len(saved.rows) - Len(store)]
    /\ posts' = posts + 1
    /\ UNCHANGED <<pc, turn, request, received, questionType, relevantMemories,
                   userContext, systemPrompt, geminiResponse, learningResults,
                   httpResponse, calls, faults, svcVars, concVars, hookVars>>

\* a chat message of 2001 characters
LongMessage == "hey" \o Rep(" a", (MAX_CONTENT_LENGTH \div 2) - 1)

\* bodies posted to /api/twin/chat; each valid one is classified by its keywords
WriteBackBodies ==
    {[has_message |-> TRUE, is_string |-> TRUE, message |-> "what music do you like",
      user_id |-> "u1", conversation_id |-> "c1"],
     [has_message |-> TRUE, is_string |-> TRUE, message |-> LongMessage,
      user_id |-> None, conversation_id |-> None],
     [has_message |-> TRUE, is_string |-> TRUE, message |-> "   ",
      user_id |-> "u1", conversation_id |-> "c1"]}

\* the classification provider is not asked about a message with a keyword
NotAsked == [threw |-> FALSE, text |-> None]

\* the table after POST /api/twin/chat has handled a body: the retrieval and
\* the user-context steps catch their errors and write nothing
chatWriteBack(rows, body, userId, llm, provider, e1, s1, e2, s2) ==
    LET req == [message |-> body.message, user_id |-> userId,
                conversation_id |-> body.conversation_id]
        classified == classifyQuestion(body.message, llm)
        generated == TS_generateEnhancedTwinResponse(provider)
    IN  IF validate(body) # "ok" THEN [rows |-> rows, status |-> 400]
        ELSE IF classified.threw \/ generated.kind = "thrown"
        THEN [rows |-> rows, status |-> 500]
        ELSE [rows |-> learnOutcome(req, classified.type, generated.response,
                                    rows, e1, s1, e2, s2).rows,
              status |-> 200]

\* the failures that cannot happen in this request are not drawn
writeBackFlagsRelevant(body, userId, provider, e1, s1, e2, s2) ==
    IF validate(body) # "ok" THEN provider.response = "" /\ e1 /\ s1 /\ e2 /\ s2
    ELSE IF provider.threw THEN e1 /\ s1 /\ e2 /\ s2
    ELSE learnFlagsRelevant([message |-> body.message, user_id |-> userId],
                            fastClassifyByKeywords(body.message),
                            provider.response, e1, s1, e2, s2)

\* one whole chat request, from POST to its answer
ChatWriteBack ==
    /\ turn < MaxTurns
    /\ pc = "idle"
    /\ \E body \in WriteBackBodies, provider \in ProviderOutcomes,
          e1, s1, e2, s2 \in BOOLEAN :
        LET userId == IF body.user_id = None
                      THEN "anon_" \o ToString(turn + 1) ELSE body.user_id
            out == chatWriteBack(store, body, userId, NotAsked, provider,
                                 e1, s1, e2, s2)
        IN  /\ writeBackFlagsRelevant(body, userId, provider, e1, s1, e2, s2)
            /\ store' = out.rows
            /\ httpResponse' = [kind |-> IF out.status = 200 THEN "chat" ELSE "error",
                                success |-> out.status = 200,
                                status |-> out.status]
            /\ received' = [body |-> body, store |-> store]
    /\ turn' = turn + 1
    /\ UNCHANGED <<pc, request, questionType, relevantMemories, userContext,
                   systemPrompt, geminiResponse, learningResults, calls, faults,
                   svcVars, memVars, concVars, hookVars>>

MemNext ==
    \/ PostMemory
    \/ SaveMemory
    \/ ChatWriteBack

MemSpec == Init /\ [][MemNext]_vars

-----------------------------------------------------------------------------
(* Concurrent chat requests, interleaved at their awaits *)

MaxRequests == 2    \* chat requests in flight per behaviour

\* valid bodies, each classified by its keywords
ConcBodies ==
    {[has_message |-> TRUE, is_string |-> TRUE, message |-> "what music do you like",
      user_id |-> "u1", conversation_id |-> "c1"],
     [has_message |-> TRUE, is_string |-> TRUE, message |-> "hey what's up",
      user_id |-> None, conversation_id |-> None]}

\* what the sequential variables do while requests run concurrently
sequentialVars ==
    <<pc, turn, request, received, questionType, relevantMemories, userContext,
      systemPrompt, geminiResponse, learningResults, httpResponse, calls, faults,
      svcVars, memVars, hookVars>>

\* where enhancedLearnFromInteraction goes after step 1: steps 2 and 3 are
\* synchronous, step 4 awaits the embedding of the pattern
afterUserMessage(r) ==
    IF assessResponseQuality(r.response, r.questionType) > 7
    THEN "pattern_embedding" ELSE "done"

\* POST accepts a request and calls TwinService.chat for it
ConcPost ==
    /\ Len(reqs) < MaxRequests
    /\ \E body \in ConcBodies :
        /\ validate(body) = "ok"
        /\ reqs' = Append(reqs,
              [pc |-> "classify",
               request |-> [message |-> body.message,
                            user_id |-> IF body.user_id = None
                                        THEN "anon_" \o ToString(Len(reqs) + 1)
                                        ELSE body.user_id,
                            conversation_id |->
                                IF body.conversation_id = None
                                THEN "conv_" \o ToString(Len(reqs) + 1)
                                ELSE body.conversation_id],
               questionType |-> None,
               response |-> None,
               inserted |-> <<>>,
               status |-> 0])
    /\ UNCHANGED <<store, sequentialVars>>

\* step 1 of chat
ConcClassify ==
    /\ \E i \in DOMAIN reqs :
        /\ reqs[i].pc = "classify"
        /\ reqs' = [reqs EXCEPT
              ![i].questionType = classifyQuestion(reqs[i].request.message,
                                                   NotAsked).type,
              ![i].pc = "retrieve_memories"]
    /\ UNCHANGED <<store, sequentialVars>>

\* step 2 of chat: the table is read, an error is caught
ConcRetrieve ==
    /\ \E i \in DOMAIN reqs :
        /\ reqs[i].pc = "retrieve_memories"
        /\ reqs' = [reqs EXCEPT ![i].pc = "load_user_context"]
    /\ UNCHANGED <<store, sequentialVars>>

\* step 3 of chat: the table is read, an error is caught; the prompts are
\* built without an await
ConcGetUserContext ==
    /\ \E i \in DOMAIN reqs :
        /\ reqs[i].pc = "load_user_context"
        /\ reqs' = [reqs EXCEPT ![i].pc = "generate"]
    /\ UNCHANGED <<store, sequentialVars>>

\* step 6 of chat and the test of step 1 of enhancedLearnFromInteraction
ConcGenerate ==
    /\ \E i \in DOMAIN reqs, outcome \in ProviderOutcomes :
        LET result == TS_generateEnhancedTwinResponse(outcome)
            r == [reqs[i] EXCEPT !.response = result.response]
        IN  /\ reqs[i].pc = "generate"
            /\ reqs' = [reqs EXCEPT ![i] =
                  IF result.kind = "thrown"
                  THEN [reqs[i] EXCEPT !.pc = "done", !.status = 500]
                  ELSE [r EXCEPT !.pc = IF shouldStoreUserMessage(r.request)
                                        THEN "user_message_embedding"
                                        ELSE afterUserMessage(r),
                                 !.status = 200]]
    /\ UNCHANGED <<store, sequentialVars>>

\* createEmbeddings of storeUserMessageEnhanced: a failure ends the learning
ConcEmbedUserMessage ==
    /\ \E i \in DOMAIN reqs, ok \in BOOLEAN :
        /\ reqs[i].pc = "user_message_embedding"
        /\ reqs' = [reqs EXCEPT ![i].pc = IF ok THEN "user_message_insert"
                                          ELSE "done"]
    /\ UNCHANGED <<store, sequentialVars>>

\* saveMemory of storeUserMessageEnhanced
ConcStoreUserMessage ==
    /\ \E i \in DOMAIN reqs, ok \in BOOLEAN :
        LET memoryData == userInputMemory(reqs[i].request, reqs[i].questionType,
                                          freshId(store))
            saved == saveMemory(store, memoryData, ok)
        IN  /\ reqs[i].pc = "user_message_insert"
            /\ store' = saved.rows
            /\ reqs' = [reqs EXCEPT
                  ![i].pc = IF saved.threw THEN "done" ELSE afterUserMessage(reqs[i]),
                  ![i].inserted = IF saved.threw THEN @ ELSE Append(@, memoryData)]
    /\ UNCHANGED sequentialVars

\* createEmbeddings of storeConversationPattern
ConcEmbedPattern ==
    /\ \E i \in DOMAIN reqs, ok \in BOOLEAN :
        /\ reqs[i].pc = "pattern_embedding"
        /\ reqs' = [reqs EXCEPT ![i].pc = IF ok THEN "pattern_insert" ELSE "done"]
    /\ UNCHANGED <<store, sequentialVars>>

\* saveMemory of storeConversationPattern
ConcStorePattern ==
    /\ \E i \in DOMAIN reqs, ok \in BOOLEAN :
        LET memoryData == patternMemory(reqs[i].questionType, freshId(store))
            saved == saveMemory(store, memoryData, ok)
        IN  /\ reqs[i].pc = "pattern_insert"
            /\ store' = saved.rows
            /\ reqs' = [reqs EXCEPT
                  ![i].pc = "done",
                  ![i].inserted = IF saved.threw THEN @ ELSE Append(@, memoryData)]
    /\ UNCHANGED sequentialVars

ConcNext ==
    \/ ConcPost
    \/ ConcClassify
    \/ ConcRetrieve
    \/ ConcGetUserContext
    \/ ConcGenerate
    \/ ConcEmbedUserMessage
    \/ ConcStoreUserMessage
    \/ ConcEmbedPattern
    \/ ConcStorePattern

ConcSpec == Init /\ [][ConcNext]_vars

-----------------------------------------------------------------------------
(* One user's conversation: several turns, one after the other *)

MaxSessionTurns == 2    \* chat requests of the conversation

SessionUser == "u2"

\* messages the user kept from earlier conversations
EarlierMessages ==
    [k \in 1..4 |->
        [id |-> "e" \o ToString(k), content |-> "I am learning to play jazz music",
         type |-> "user_input", subject |-> "user", user_id |-> SessionUser,
         tags |-> {"music"}, visibility |-> "private", mood |-> None]]

\* the table when the conversation starts: a new user, or a returning one
SessionTables == {PersonaMemories, PersonaMemories \o EarlierMessages}

\* what the user sends: two messages of more than 10 characters, one shorter
SessionBodies ==
    {[has_message |-> TRUE, is_string |-> TRUE, message |-> m,
      user_id |-> SessionUser, conversation_id |-> "c2"] :
        m \in {"what music do you like", "hey what's up", "hi there"}}

SessionInit ==
    /\ pc = "idle"
    /\ turn = 0
    /\ request = NoRequest
    /\ questionType = None
    /\ relevantMemories = <<>>
    /\ userContext = Null
    /\ systemPrompt = <<>>
    /\ geminiResponse = NoResult
    /\ learningResults = NoResult
    /\ httpResponse = NoResult
    /\ calls = NoCalls
    /\ store \in SessionTables
    /\ faults = 0
    /\ received = NoReceived
    /\ svcCall = NoSvcCall
    /\ svcResult = NoResult
    /\ MemIdle
    /\ ConcIdle
    /\ HookIdle

\* POST for a body of the conversation
SessionPost ==
    /\ pc = "idle"
    /\ turn < MaxSessionTurns
    /\ \E body \in SessionBodies :
        /\ validate(body) = "ok"
        /\ received' = [body |-> body, store |-> store]
        /\ request' = [message |-> body.message, user_id |-> body.user_id,
                       conversation_id |-> body.conversation_id]
    /\ pc' = "classify"
    /\ httpResponse' = NoResult
    /\ turn' = turn + 1
    /\ calls' = NoCalls
    /\ UNCHANGED <<questionType, relevantMemories, userContext, systemPrompt,
                   geminiResponse, learningResults, store, faults, svcVars,
                   memVars, concVars, hookVars>>

SessionNext ==
    \/ SessionPost
    \/ ClassifyQuestion
    \/ RetrieveRelevantMemoriesEnhanced
    \/ GetUserContext
    \/ BuildPrompt
    \/ GenerateEnhancedTwinResponse
    \/ EnhancedLearnFromInteraction
    \/ NextRequest

SessionSpec == SessionInit /\ [][SessionNext]_vars

-----------------------------------------------------------------------------
(* The client's chat hook useTwinChat: event handlers, timers and the
   continuations of its requests *)

MaxCalls == 3     \* calls of sendMessage per behaviour
MaxClears == 1    \* calls of clearChat per behaviour

GREETING ==
    "Hey there! ## I'm Pragyan Deep's AI twin - I think and respond just like him. What's your name?"

\* what the user may submit
HookContents == {"   ", " what music do you like "}

\* how the fetch of /api/twin/chat may end when it is not aborted
FetchOutcomes ==
    {[kind |-> "ok", response |-> r, message |-> None] :
        r \in {"Doing great!"}}
    \cup {[kind |-> "http_error", response |-> None, message |-> "PROCESSING_ERROR"],
          [kind |-> "not_success", response |-> None,
           message |-> "Failed to get response from Twin"],
          [kind |-> "rejected", response |-> None, message |-> "Failed to fetch"]}

\* the guard of sendMessage without the test of isLoading
sendMessageIgnored_noLoadingCheck(content, isLoading) == trim(content) = ""

\* the guard of sendMessage: isLoading is the value its closure captured
sendMessageIgnored(content, isLoading) == trim(content) = "" \/ isLoading

addMessage(messages, message, id) ==
    Append(messages, [id |-> id, role |-> message.role, content |-> message.content,
                      isStreaming |-> message.isStreaming, isError |-> FALSE])

updateMessage(messages, id, updates) ==
    [i \in DOMAIN messages |->
        IF messages[i].id = id
        THEN [f \in DOMAIN messages[i] |->
                IF f \in DOMAIN updates THEN updates[f] ELSE messages[i][f]]
        ELSE messages[i]]

\* what the next render captures for the callbacks
renderedState(h) ==
    [isLoading |-> h.isLoading, currentConversation |-> h.currentConversation]

\* a promise was rejected by abort(): its continuation runs before any other
\* event or timer
MicrotasksPending ==
    \E k \in DOMAIN hook.requests : hook.requests[k].status = "aborting"

\* sendMessage up to its first await, and the render that ends the event
HookSendMessage ==
    /\ ~MicrotasksPending
    /\ hook.calls < MaxCalls
    /\ \E content \in HookContents :
        IF sendMessageIgnored(content, hook.closure.isLoading)
        THEN hook' = [hook EXCEPT
                !.calls = @ + 1,
                !.lastCall = [content |-> content, outcome |-> "ignored"]]
        ELSE LET assistantMessageId == hook.ids + 2
                 withUser == addMessage(hook.messages,
                                [role |-> "user", content |-> trim(content),
                                 isStreaming |-> FALSE], hook.ids + 1)
                 withPlaceholder == addMessage(withUser,
                                [role |-> "assistant", content |-> "",
                                 isStreaming |-> TRUE], assistantMessageId)
             IN  hook' = [hook EXCEPT
                    !.messages = withPlaceholder,
                    !.ids = @ + 2,
                    !.isLoading = TRUE,
                    !.isStreaming = TRUE,
                    !.error = None,
                    !.abortController = Len(hook.requests) + 1,
                    !.requests = Append(@,
                        [assistantMessageId |-> assistantMessageId,
                         message |-> trim(content),
                         conversation_id |-> hook.closure.currentConversation,
                         status |-> "in_flight"]),
                    !.closure = [isLoading |-> TRUE,
                                 currentConversation |-> hook.currentConversation],
                    !.calls = @ + 1,
                    !.lastCall = [content |-> content, outcome |-> "accepted"]]
    /\ UNCHANGED <<chatVars, svcVars, memVars, concVars>>

\* the rest of sendMessage when the fetch settles: the first call of
\* streamWords or the catch block, then the finally block
HookFetchSettled ==
    /\ ~MicrotasksPending
    /\ \E k \in DOMAIN hook.requests, outcome \in FetchOutcomes :
        /\ hook.requests[k].status = "in_flight"
        /\ LET id == hook.requests[k].assistantMessageId IN
           hook' =
             IF outcome.kind = "ok"
             THEN LET words == splitBlank(outcome.response) IN
                  [hook EXCEPT
                    !.messages = updateMessage(@, id, [content |-> words[1],
                                                       isStreaming |-> TRUE]),
                    !.streams = @ \cup {[id |-> id, words |-> words,
                                         currentIndex |-> 1]},
                    !.currentConversation = hook.requests[k].conversation_id,
                    !.isLoading = FALSE,
                    !.isStreaming = FALSE,
                    !.abortController = 0,
                    !.requests[k].status = "succeeded"]
             ELSE [hook EXCEPT
                    !.messages = updateMessage(@, id,
                        [content |-> "Sorry, I encountered an error. Please try again.",
                         isStreaming |-> FALSE, isError |-> TRUE]),
                    !.error = outcome.message,
                    !.isLoading = FALSE,
                    !.isStreaming = FALSE,
                    !.abortController = 0,
                    !.requests[k].status = "failed"]
    /\ UNCHANGED <<chatVars, svcVars, memVars, concVars>>

\* a timer of streamWords fires
HookStreamWords ==
    /\ ~MicrotasksPending
    /\ \E s \in hook.streams :
        hook' =
          IF s.currentIndex < Len(s.words)
          THEN [hook EXCEPT
                 !.messages = updateMessage(@, s.id,
                     [content |-> joinWith(SubSeq(s.words, 1, s.currentIndex + 1), " "),
                      isStreaming |-> TRUE]),
                 !.streams = (@ \ {s})
                             \cup {[s EXCEPT !.currentIndex = @ + 1]}]
          ELSE [hook EXCEPT
                 !.messages = updateMessage(@, s.id,
                     [content |-> joinWith(s.words, " "), isStreaming |-> FALSE]),
                 !.streams = @ \ {s}]
    /\ UNCHANGED <<chatVars, svcVars, memVars, concVars>>

\* clearChat, and the render that ends the event
HookClearChat ==
    /\ ~MicrotasksPending
    /\ hook.clears < MaxClears
    /\ LET conversation == "conv_" \o ToString(hook.clears + 1) IN
       hook' = [hook EXCEPT
            !.requests = [k \in DOMAIN hook.requests |->
                            IF hook.abortController = k
                            THEN [hook.requests[k] EXCEPT !.status = "aborting"]
                            ELSE hook.requests[k]],
            !.abortController = 0,
            !.messages = <<>>,
            !.isLoading = FALSE,
            !.isStreaming = FALSE,
            !.currentConversation = conversation,
            !.error = None,
            !.hasGreeted = FALSE,
            !.greetingTimers = @ + 1,
            !.closure = [isLoading |-> FALSE, currentConversation |-> conversation],
            !.clears = @ + 1]
    /\ UNCHANGED <<chatVars, svcVars, memVars, concVars>>

\* the rest of sendMessage for an aborted fetch: the AbortError branch of the
\* catch block, then the finally block
HookRequestAborted ==
    /\ \E k \in DOMAIN hook.requests :
        /\ hook.requests[k].status = "aborting"
        /\ hook' = [hook EXCEPT
              !.messages = SelectSeq(@, LAMBDA msg :
                              msg.id # hook.requests[k].assistantMessageId),
              !.isLoading = FALSE,
              !.isStreaming = FALSE,
              !.abortController = 0,
              !.requests[k].status = "aborted"]
    /\ UNCHANGED <<chatVars, svcVars, memVars, concVars>>

\* the timer of the greeting fires
HookGreet ==
    /\ ~MicrotasksPending
    /\ hook.greetingTimers > 0
    /\ hook' = [hook EXCEPT
          !.hasGreeted = TRUE,
          !.greetingTimers = @ - 1,
          !.messages = addMessage(@, [role |-> "assistant", content |-> GREETING,
                                      isStreaming |-> FALSE], hook.ids + 1),
          !.ids = @ + 1]
    /\ UNCHANGED <<chatVars, svcVars, memVars, concVars>>

\* the render after state was set outside an event handler
HookRender ==
    /\ ~MicrotasksPending
    /\ hook.closure # renderedState(hook)
    /\ hook' = [hook EXCEPT !.closure = renderedState(hook)]
    /\ UNCHANGED <<chatVars, svcVars, memVars, concVars>>

HookNext ==
    \/ HookSendMessage
    \/ HookFetchSettled
    \/ HookStreamWords
    \/ HookClearChat
    \/ HookRequestAborted
    \/ HookGreet
    \/ HookRender

HookSpec == Init /\ [][HookNext]_vars

-----------------------------------------------------------------------------
(* Properties of the chat pipeline (specification Spec) *)

TurnAnswered == pc = "responded" /\ request # NoRequest

\* C1: in every chat turn whose message is classified personal and is flagged
\* ambiguous by detectAmbiguity, the orchestrator answers with a clarification
\* and makes no call to the generation provider during the turn.
C1_AmbiguousPersonalSkipsGeneration ==
    (/\ TurnAnswered
     /\ questionType = "personal"
     /\ detectAmbiguity(request.message).isAmbiguous)
    => /\ httpResponse.kind = "clarification"
       /\ calls.generate = 0
       /\ calls.classify = 0

\* C2: in every chat turn in which the generation provider raises a
\* "503 Service Unavailable" error, the final response has success = true,
\* personality.tone = "error_handling" and learning.new_memories_created = 0.
C2_ServiceUnavailableAnsweredGracefully ==
    (/\ TurnAnswered
     /\ calls.generateError # None
     /\ Includes(calls.generateError, "503 Service Unavailable"))
    => /\ httpResponse.kind = "chat"
       /\ httpResponse.success
       /\ httpResponse.tone = "error_handling"
       /\ httpResponse.new_memories_created = 0

\* the substrings by which an error message is recognised as a transient failure
KnownTransientSignatures ==
    {"503", "Service Unavailable", "429", "overloaded", "rate limit", "quota",
     "network", "connection", "timeout"}

HasTransientSignature(errorMessage) ==
    \E sig \in KnownTransientSignatures : Includes(errorMessage, sig)

\* C4: every generation error that matches none of the known transient
\* signatures is a hard failure: the generation stage throws (in TwinService as
\* in ResponseGeneratorService), chat rethrows, and the turn is answered with
\* success = false, an error code and a message, never with a success envelope.
C4_OtherErrorsAreHardFailures ==
    (/\ TurnAnswered
     /\ calls.generateError # None
     /\ ~HasTransientSignature(calls.generateError))
    => /\ geminiResponse.kind = "thrown"
       /\ \A r \in handleGenerationError(calls.generateError, request.message) :
            r.kind = "thrown" /\ Len(r.message) > 0
       /\ httpResponse.kind = "error"
       /\ ~httpResponse.success
       /\ httpResponse.status = 500
       /\ httpResponse.error = "PROCESSING_ERROR"
       /\ httpResponse.message = geminiResponse.message
       /\ Len(httpResponse.message) > 0

C4_Witness ==
    /\ TurnAnswered
    /\ calls.generateError # None
    /\ Includes(calls.generateError, "API key not valid")
    /\ ~httpResponse.success
    /\ httpResponse.error = "PROCESSING_ERROR"

\* C5: for category casual (configured memory count 0) memory retrieval issues
\* no embedding call and no vector-store query and returns the empty list,
\* whatever the message.
C5_CasualRetrievesNothing ==
    (questionType = "casual" /\ pc \in {"context", "prompt", "generate", "learn"})
    => /\ calls.embed = 0
       /\ calls.search = 0
       /\ calls.retrievalFailure = None
       /\ relevantMemories = <<>>

C5_Witness ==
    /\ pc = "context"
    /\ questionType = "casual"
    /\ request.message = "hey what's up"
    /\ calls.embed = 0
    /\ relevantMemories = <<>>

\* C6: if the embedding call or the vector-store query fails during memory
\* retrieval, retrieval returns the empty list and the caller never sees the
\* failure: the turn goes on to prompt building and generation with
\* memories = [], and its response reports memories_used.count = 0.
C6_RetrievalFailureDegrades ==
    (calls.retrievalFailure # None)
    => /\ pc \in {"context", "prompt", "generate", "learn", "responded"}
       /\ relevantMemories = <<>>
       /\ pc \in {"learn", "responded"} => calls.generate = 1
       /\ pc = "responded" =>
            \/ /\ httpResponse.kind = "chat"
               /\ httpResponse.success
               /\ httpResponse.memories_used_count = 0
            \/ /\ httpResponse.kind = "error"
               /\ calls.generateError # None
               /\ httpResponse.message = geminiResponse.message

C6_Witness ==
    /\ pc = "responded"
    /\ calls.retrievalFailure = "search"
    /\ calls.generate = 1
    /\ httpResponse.kind = "chat"
    /\ httpResponse.memories_used_count = 0

\* a line telling the model that no memory is loaded, or forbidding it to
\* invent one
IsNoMemoryMarker(line) ==
    \E w \in {"None available", "NO specific memories", "NO MEMORIES LOADED",
              "not having specific memories", "no specific memories exist",
              "no relevant memories exist", "fabricate", "invent"} :
        Includes(line, w)

\* the literal templates of the with-memories branch
MemoryTemplates == {PB_MemoryHeader, PB_MemoryValidation, TS_MemoryHeader}

\* C10: when memories = [], the system prompt built by buildEnhancedSystemPrompt
\* contains an explicit "no memories available / do not invent" marker and none
\* of the templates of the with-memories branch (list header, per-memory bullet
\* lines, memory-validation sentence), for every category and user context.
C10_ChatPromptWithoutMemories ==
    (pc \in {"generate", "learn", "responded"} /\ systemPrompt # <<>>
     /\ relevantMemories = <<>>)
    => /\ \E line \in Range(systemPrompt) : IsNoMemoryMarker(line)
       /\ Range(systemPrompt) \cap MemoryTemplates = {}
       /\ \A m \in Range(PersonaMemories) :
            memoryBullet(m) \notin Range(systemPrompt)

-----------------------------------------------------------------------------
(* Properties of the service methods (specification SvcSpec) *)

Called(fn) == svcCall.fn = fn /\ svcResult # NoResult

PriorityOrder == <<"casual", "personal", "technical", "deep", "specific">>

HasKeywordOf(category, message) ==
    \E k \in CLASSIFICATION_PATTERNS[category] : Includes(toLowerCase(message), k)

\* C7: a message that contains (as a lowercase substring) a keyword of some
\* category and no keyword of a category earlier in the order casual, personal,
\* technical, deep, specific, is classified as that category without any
\* generation call; with keywords of several categories the earliest wins.
C7_KeywordPriority ==
    Called("classifyQuestion")
    => \A i \in 1..Len(PriorityOrder) :
        (/\ HasKeywordOf(PriorityOrder[i], svcCall.message)
         /\ \A j \in 1..(i - 1) : ~HasKeywordOf(PriorityOrder[j], svcCall.message))
        => /\ svcResult.type = PriorityOrder[i]
           /\ svcResult.llmCalls = 0
           /\ ~svcResult.threw

C7_Witness ==
    /\ Called("classifyQuestion")
    /\ HasKeywordOf("casual", svcCall.message)
    /\ HasKeywordOf("personal", svcCall.message)
    /\ svcResult.type = "casual"
    /\ svcResult.llmCalls = 0

NoKeyword(message) == \A c \in QuestionTypes : ~HasKeywordOf(c, message)

\* the answer of the model is not, once trimmed and lower-cased, a category name
InvalidAnswer(outcome) ==
    \/ outcome.text = None
    \/ toLowerCase(trim(outcome.text)) \notin QuestionTypes

\* C8: classification never throws and always returns one of the five
\* categories; when no keyword list matches exactly one generation call is
\* made, and if that call fails or answers anything but a category name
\* (trimmed, lower-cased) the result is casual.
C8_ClassificationTotal ==
    Called("classifyQuestion")
    => /\ ~svcResult.threw
       /\ svcResult.type \in QuestionTypes
       /\ NoKeyword(svcCall.message)
            => /\ svcResult.llmCalls = 1
               /\ (svcCall.outcome.threw \/ InvalidAnswer(svcCall.outcome))
                    => svcResult.type = "casual"
               /\ (~svcCall.outcome.threw /\ ~InvalidAnswer(svcCall.outcome))
                    => svcResult.type = toLowerCase(trim(svcCall.outcome.text))

C8_Witness ==
    /\ Called("classifyQuestion")
    /\ NoKeyword(svcCall.message)
    /\ svcCall.outcome.threw
    /\ svcResult.llmCalls = 1
    /\ svcResult.type = "casual"
    /\ ~svcResult.threw

ClassifiedPersonal(message) ==
    \E outcome \in LlmOutcomes : classifyQuestion(message, outcome).type = "personal"

WordCount(message) == SplitWsCount(trim(message))

\* C9 as stated: every message of at most 4 words that contains no domain
\* keyword and is classified personal is flagged ambiguous by detectAmbiguity;
\* with a domain keyword in it the message is not flagged, its confidence
\* being below 0.5.
C9_ShortPersonalIsAmbiguous ==
    Called("detectAmbiguity")
    => /\ (/\ WordCount(svcCall.message) <= 4
           /\ mentionedDomains(svcCall.message) = {}
           /\ ClassifiedPersonal(svcCall.message))
          => svcResult.isAmbiguous
       /\ mentionedDomains(svcCall.message) # {}
          => ~svcResult.isAmbiguous /\ svcResult.confidence < 5

\* the keyword signal: a generic question pattern or a vague-object word
KeywordSignal(message) ==
    LET lowerMessage == toLowerCase(message) IN
    \/ \E p \in generic_patterns : Includes(lowerMessage, p)
    \/ \E w \in vague_objects : Includes(lowerMessage, w)

\* C9 amended: every message of at most 4 words that contains no domain
\* keyword, is classified personal and matches a generic question pattern or
\* holds a vague-object word is flagged ambiguous, with confidence at least
\* 0.7; a message with a domain keyword in it is never flagged, its confidence
\* being at most 0.4.
C9_GenericShortPersonalIsAmbiguous ==
    Called("detectAmbiguity")
    => /\ (/\ WordCount(svcCall.message) <= 4
           /\ mentionedDomains(svcCall.message) = {}
           /\ ClassifiedPersonal(svcCall.message)
           /\ KeywordSignal(svcCall.message))
          => svcResult.isAmbiguous /\ svcResult.confidence >= 7
       /\ mentionedDomains(svcCall.message) # {}
          => ~svcResult.isAmbiguous /\ svcResult.confidence <= 4

C9_Witness ==
    /\ Called("detectAmbiguity")
    /\ svcCall.message = "what do you like?"
    /\ WordCount(svcCall.message) = 4
    /\ mentionedDomains(svcCall.message) = {}
    /\ ClassifiedPersonal(svcCall.message)
    /\ svcResult.isAmbiguous
    /\ svcResult.confidence = 10

-----------------------------------------------------------------------------
(* Properties of the learning step and of the route (specification Spec) *)

\* the rows the current turn has added to the table
NewRows == {i \in DOMAIN store : i > Len(received.store)}

NewUserInputs == {i \in NewRows : store[i].type = "user_input"}

\* C11: the four steps of learn are independently fault-tolerant: when one of
\* its external calls fails, in particular the embedding or the insert for the
\* user message, the insights are still extracted, the quality score is still
\* computed and a qualifying pattern is still stored.
C11_LearnStepsIndependent ==
    (/\ TurnAnswered
     /\ learningResults.kind = "learned"
     /\ calls.learnFailure # None)
    => LET quality == assessResponseQuality(geminiResponse.response, questionType)
       IN  /\ learningResults.user_insights_gained =
                extractQuestionTypeInsights(request.message, questionType)
           /\ learningResults.response_quality_score = quality
           /\ (quality > 7 /\ calls.learnFailure \in {"embedding", "insert"})
                => \E i \in NewRows :
                        store[i] = patternMemory(questionType, store[i].id)

\* a body the route accepts according to the validation rules
ValidBody(body) ==
    /\ body.has_message
    /\ body.is_string
    /\ Len(trim(body.message)) > 0
    /\ Len(body.message) <= MaxMessageLength

\* C13: a chat request whose message is missing, not a string, empty after
\* trimming or longer than 4000 characters is answered with success = false
\* and no classification, embedding, store read, generation or store write
\* happens for it; every accepted request reaches the orchestrator with a
\* user_id and a conversation_id, its own when it carried one.
C13_InvalidRequestsRejectedBeforePipeline ==
    received # NoReceived
    => IF ~ValidBody(received.body)
       THEN /\ pc = "responded"
            /\ httpResponse.kind = "error"
            /\ httpResponse.success = FALSE
            /\ calls = NoCalls
            /\ store = received.store
       ELSE /\ request.user_id # None
            /\ request.conversation_id # None
            /\ received.body.user_id # None
                    => request.user_id = received.body.user_id
            /\ received.body.conversation_id # None
                    => request.conversation_id = received.body.conversation_id

\* a message longer than 4000 characters has been rejected
C13_Witness ==
    /\ pc = "responded"
    /\ Len(received.body.message) > MaxMessageLength
    /\ httpResponse.kind = "error"
    /\ httpResponse.error = "MESSAGE_TOO_LONG"

\* the steps of chat in the order of its code
StageOrder ==
    <<"classify", "retrieve_memories", "load_user_context", "build_prompt",
      "generate", "learn">>

IsPrefix(s, t) == Len(s) <= Len(t) /\ s = SubSeq(t, 1, Len(s))

C20_UserMessageStoredIff ==
    (TurnAnswered /\ learningResults.kind = "learned")
    => /\ (request.user_id # None /\ Len(request.message) > 10)
            <=> /\ Cardinality(NewUserInputs) = 1
                /\ \A i \in NewUserInputs :
                        /\ store[i].subject = "user"
                        /\ store[i].user_id = request.user_id
                        /\ store[i].content = request.message
       /\ learningResults.new_memories_created = Cardinality(NewUserInputs)

\* C20, amended: learn stores the user's message as exactly one new user_input
\* memory of subject user with the request's user_id if and only if a user id is
\* present, the trimmed message exceeds 10 characters and the embedding and the
\* insert for it both succeed; the reported number of memories created is the
\* number of user_input rows inserted in the turn (0 or 1).
C20_UserMessageStoredUnlessFailure ==
    (TurnAnswered /\ learningResults.kind = "learned")
    => /\ (/\ request.user_id # None
           /\ Len(trim(request.message)) > 10
           /\ calls.learnFailure \notin {"embedding", "insert"})
            <=> /\ Cardinality(NewUserInputs) = 1
                /\ \A i \in NewUserInputs :
                        /\ store[i].subject = "user"
                        /\ store[i].user_id = request.user_id
                        /\ store[i].content = request.message
       /\ learningResults.new_memories_created = Cardinality(NewUserInputs)
       /\ Cardinality(NewUserInputs) <= 1

\* the message of the turn has been written back
C20_Witness ==
    /\ TurnAnswered
    /\ learningResults.kind = "learned"
    /\ Cardinality(NewUserInputs) = 1
    /\ learningResults.new_memories_created = 1

-----------------------------------------------------------------------------
(* Properties of the length score and of the cascade (specification SvcSpec) *)

\* the score the specification gives to w words for a category, in tenths
LengthScoreTable(w, target, max) ==
    IF 10 * w <= 12 * target THEN 10
    ELSE IF w <= max THEN 8
    ELSE IF 2 * w <= 3 * max THEN 6
    ELSE 3

C19_AmbiguityCascade ==
    Called("detectAmbiguity")
    => LET keyword == detectKeywordAmbiguity(svcCall.message).isAmbiguous
           scope == detectScopeAmbiguity(svcCall.message).isAmbiguous
           specificity == analyzeQuestionSpecificity(svcCall.message).isAmbiguous
       IN  /\ svcResult.confidence \in {0, 4, 7, 10}
           /\ svcResult.confidence >= 4 <=> keyword
           /\ svcResult.confidence >= 7 <=> keyword /\ scope
           /\ svcResult.confidence = 10 <=> keyword /\ scope /\ specificity
           /\ svcResult.isAmbiguous <=> svcResult.confidence >= 5
           /\ svcResult.isAmbiguous <=> keyword /\ scope

\* the keyword and the scope signal fired, the specificity signal did not
C19_Witness ==
    /\ Called("detectAmbiguity")
    /\ svcResult.confidence = 7
    /\ svcResult.isAmbiguous
    /\ ~analyzeQuestionSpecificity(svcCall.message).isAmbiguous

-----------------------------------------------------------------------------
(* Properties of the memories table (specification MemSpec) *)

\* C14: in every reachable state of the table every memory with subject user
\* has a user_id, whatever chat turns, memory creations and saves came before.
C14_UserSubjectHasUserId ==
    \A i \in DOMAIN store : store[i].subject = "user" => store[i].user_id # None

\* a chat message was written back for its user next to a logged memory
C14_Witness ==
    /\ \E i \in DOMAIN store :
            /\ i > Len(PersonaMemories)
            /\ store[i].type = "user_input"
            /\ store[i].subject = "user"
            /\ store[i].user_id # None
    /\ \E i \in DOMAIN store :
            i > Len(PersonaMemories) /\ store[i].type \in MemoryTypes

\* C15: every memory persisted through memory creation or through the
\* write-back of an accepted chat message has a content of 1 to 2000
\* characters that is not empty after trimming.
C15_ContentWithinLimits ==
    \A i \in DOMAIN store :
        /\ Len(store[i].content) >= 1
        /\ Len(store[i].content) <= MAX_CONTENT_LENGTH
        /\ Len(trim(store[i].content)) > 0

Posted == memoryRequest.fn = "POST /api/memories"

\* what POST /api/memories must do when the datastore is unavailable or the
\* body is invalid, invalid being decided by the length test given
MemoryRejections(tooLong) ==
    LET body == memoryRequest.body
        invalid == \/ body.content = None
                   \/ Len(trim(body.content)) = 0
                   \/ tooLong
                   \/ body.type \notin MemoryTypes
    IN  /\ ~memoryRequest.healthy
            => /\ memoryResponse.error = "DATABASE_UNAVAILABLE"
               /\ memoryResponse.status = 503
        /\ (memoryRequest.healthy /\ invalid)
            => /\ memoryResponse.error = "VALIDATION_ERROR"
               /\ memoryResponse.status = 400
        /\ (~memoryRequest.healthy \/ invalid)
            => /\ memoryResponse.success = FALSE
               /\ memoryCalls.embed = 0
               /\ memoryCalls.insert = 0
               /\ memoryCalls.inserted = 0
        /\ (~memoryResponse.success /\ memoryResponse.error = "DATABASE_UNAVAILABLE")
            => ~memoryRequest.healthy

\* C17 as stated: on the memory-creation endpoint an unavailable datastore is
\* answered DATABASE_UNAVAILABLE before validation, embedding or insert run,
\* and a request with empty content, an invalid type or content longer than
\* 2000 characters is answered with a validation error; in both cases no
\* embedding call is made and no memory is inserted.
C17_UnavailableOrInvalidRejected ==
    Posted => MemoryRejections(memoryRequest.body.content # None
                               /\ Len(memoryRequest.body.content)
                                    > MAX_CONTENT_LENGTH)

\* C17, amended: as above, with the content being too long when it has more
\* than 2000 characters after trimming.
C17_UnavailableOrUntrimmedInvalidRejected ==
    Posted => MemoryRejections(memoryRequest.body.content # None
                               /\ Len(trim(memoryRequest.body.content))
                                    > MAX_CONTENT_LENGTH)

\* a valid memory was posted while the datastore was unavailable
C17_Witness ==
    /\ Posted
    /\ ~memoryRequest.healthy
    /\ validateCreateRequest(memoryRequest.body) = {}
    /\ memoryResponse.error = "DATABASE_UNAVAILABLE"
    /\ memoryCalls.embed = 0
    /\ memoryCalls.inserted = 0

-----------------------------------------------------------------------------
(* Properties of concurrent chat requests (specification ConcSpec) *)

\* the inserts the requests made, as pairs of request and position
InsertsMade ==
    {kj \in (DOMAIN reqs) \X (1..2) : kj[2] \in DOMAIN reqs[kj[1]].inserted}

\* C16: however chat requests interleave at their awaits, the table is the
\* initial table followed by exactly the rows the requests inserted, each row
\* as its request wrote it and each under an id of its own: no row is lost,
\* overwritten, altered or deleted.
C16_AppendOnlyUnderInterleaving ==
    /\ Len(store) = Len(PersonaMemories) + Cardinality(InsertsMade)
    /\ SubSeq(store, 1, Len(PersonaMemories)) = PersonaMemories
    /\ \A kj \in InsertsMade :
            \E i \in DOMAIN store :
                /\ i > Len(PersonaMemories)
                /\ store[i] = reqs[kj[1]].inserted[kj[2]]
    /\ \A i, j \in DOMAIN store : i # j => store[i].id # store[j].id

\* two requests have finished and their inserts alternate in the table
C16_Witness ==
    /\ Len(reqs) >= 2
    /\ reqs[1].pc = "done" /\ reqs[2].pc = "done"
    /\ Len(reqs[1].inserted) = 2 /\ Len(reqs[2].inserted) = 2
    /\ store[Len(PersonaMemories) + 1] = reqs[1].inserted[1]
    /\ store[Len(PersonaMemories) + 2] = reqs[2].inserted[1]
    /\ store[Len(PersonaMemories) + 3] = reqs[1].inserted[2]
    /\ store[Len(PersonaMemories) + 4] = reqs[2].inserted[2]

-----------------------------------------------------------------------------
(* Properties of pattern storage (specification Spec) *)

NewPatterns ==
    {i \in NewRows : store[i].type = "system" /\ store[i].subject = "self"}

\* C21: learn persists a pattern memory (type system, subject self) if and
\* only if the quality score is greater than 0.7, and the reported number of
\* stored patterns equals the number of pattern memories the turn persisted.
C21_PatternStoredIffQuality ==
    (TurnAnswered /\ learningResults.kind = "learned")
    => /\ Cardinality(NewPatterns) <= 1
       /\ Cardinality(NewPatterns) = 1
            <=> learningResults.response_quality_score > 7
       /\ learningResults.conversation_patterns_stored = Cardinality(NewPatterns)

-----------------------------------------------------------------------------
(* Properties of the user context (specification SvcSpec) *)

\* the tiers in their order
TierRank(level) ==
    CASE level = "stranger" -> 0 [] level = "acquaintance" -> 1
      [] level = "friend" -> 2 [] level = "close_friend" -> 3

\* the tier the thresholds give to a count
TierTable(n) ==
    CASE n = 0 -> "stranger"
      [] n >= 1 /\ n <= 4 -> "acquaintance"
      [] n >= 5 /\ n <= 19 -> "friend"
      [] n >= 20 -> "close_friend"

\* C22: getUserContext answers null when the read fails or returns no
\* memory; otherwise the tier is stranger at 0, acquaintance from 1 to 4,
\* friend from 5 to 19 and close_friend from 20 on, so it never decreases as
\* the count grows, and the preference list holds each tag of the loaded
\* memories exactly once.
C22_UserContextTierAndPreferences ==
    svcResult.kind = "userContext"
    => LET read == svcCall.read
           ctx == svcResult.context
           tags == {read.memories[i].tags[j] :
                        <<i, j>> \in {ij \in (DOMAIN read.memories) \X (1..2) :
                                        ij[2] \in DOMAIN read.memories[ij[1]].tags}}
       IN  /\ ctx = Null <=> (read.threw \/ read.memories = <<>>)
           /\ ctx # Null
                => /\ ctx[1].relationship_level = TierTable(read.total)
                   /\ \A n \in InteractionCounts :
                        n <= read.total
                        => TierRank(determineRelationshipLevel(n))
                            <= TierRank(ctx[1].relationship_level)
                   /\ \A t \in tags :
                        Cardinality({i \in DOMAIN ctx[1].known_preferences :
                                        ctx[1].known_preferences[i] = t}) = 1
                   /\ \A i \in DOMAIN ctx[1].known_preferences :
                        ctx[1].known_preferences[i] \in tags

\* a context at the close_friend threshold, built from memories that repeat tags
C22_Witness ==
    /\ svcResult.kind = "userContext"
    /\ svcCall.read.total = 20
    /\ svcCall.read.memories = <<[tags |-> <<"ai", "ai">>], [tags |-> <<"code", "music">>]>>
    /\ svcResult.context # Null
    /\ svcResult.context[1].relationship_level = "close_friend"
    /\ svcResult.context[1].known_preferences = <<"ai", "code", "music">>

-----------------------------------------------------------------------------
(* Properties of the clarification response (specification SvcSpec) *)

\* the domains with at least one matching memory
PopulatedDomains(memories) ==
    {d \in DomainNames : \E i \in DOMAIN memories : belongsToDomain(memories[i], d)}

\* the example is a piece of the content, possibly cut with an ellipsis
TakenFrom(example, content) ==
    \/ /\ Len(example) > 0
       /\ Includes(content, example)
    \/ /\ Len(example) > 3
       /\ SubSeq(example, Len(example) - 2, Len(example)) = "..."
       /\ Includes(content, SubSeq(example, 1, Len(example) - 3))

\* the memory is a most relevant one among those of the domain
MostRelevantOf(memories, i, d) ==
    /\ belongsToDomain(memories[i], d)
    /\ \A j \in DOMAIN memories :
            belongsToDomain(memories[j], d)
            => memories[j].relevance_score <= memories[i].relevance_score

\* C23: the clarification response holds at most 3 examples, each taken from
\* a most relevant memory of a populated domain of its own, and its question
\* names only populated domains: all of them when 1 to 3 are populated and
\* none when no domain is populated.
C23_ClarificationExamplesAndQuestion ==
    svcResult.kind = "clarification"
    => LET ms == svcCall.memories
           populated == PopulatedDomains(ms)
           examples == svcResult.response.briefExamples
           question == svcResult.response.clarificationQuestion
       IN  /\ Len(examples) <= 3
           /\ \E ds \in Arrangements(populated, 3) :
                /\ Len(ds) = Len(examples)
                /\ \A k \in DOMAIN examples :
                    \E i \in DOMAIN ms :
                        /\ MostRelevantOf(ms, i, ds[k])
                        /\ TakenFrom(examples[k], ms[i].content)
           /\ \A d \in DomainNames : Includes(question, d) => d \in populated
           /\ Cardinality(populated) \in 1..3
                => \A d \in populated : Includes(question, d)
           /\ Cardinality(populated) = 2
                => \E a, b \in populated :
                        question = "What context were you thinking about - "
                                    \o a \o ", or " \o b \o "?"

\* two domains are populated and music has a more relevant second memory
C23_Witness ==
    /\ svcResult.kind = "clarification"
    /\ PopulatedDomains(svcCall.memories) = {"music", "technology"}
    /\ Len(svcCall.memories) = 2
    /\ svcCall.memories[1].relevance_score < svcCall.memories[2].relevance_score
    /\ Len(svcResult.response.briefExamples) = 2
    /\ svcResult.response.clarificationQuestion
        = "What context were you thinking about - music, or technology?"

-----------------------------------------------------------------------------
(* Properties of the embedding requests (specification SvcSpec) *)

\* C24: every embedding request of the system, those of memory retrieval and
\* of write-back included, fails and sends nothing to the embedding model
\* when its text is empty or longer than 8000 characters, and what is sent is
\* the whole text, never a truncated one.
C24_EmbeddingInputChecked ==
    svcResult.kind = "embedding"
    => /\ (svcCall.text = "" \/ Len(svcCall.text) > MaxEmbeddingLength)
            => (svcResult.threw /\ svcResult.sent = <<>>)
       /\ svcResult.sent # <<>> => trim(svcResult.sent[1]) = trim(svcCall.text)

-----------------------------------------------------------------------------
(* Properties of a conversation of several turns (specification SessionSpec) *)

\* ids of the rows the table held before the conversation
InitialIds == {(PersonaMemories \o EarlierMessages)[i].id :
                 i \in DOMAIN (PersonaMemories \o EarlierMessages)}

\* the rows the chat turns have written
WrittenByChat(rows) == {rows[i] : i \in {j \in DOMAIN rows : rows[j].id \notin InitialIds}}

\* ids of the rows some search of the retrieval step can return
RetrievableIds(rows) ==
    UNION {{found[k].id : k \in DOMAIN found} :
             found \in searchMemories(rows, [limit |-> 0, subject |-> "self",
                                             visibility |-> "public"])}

\* C25: no memory written by a chat turn is returned by the retrieval of any
\* later turn: the user messages are written with subject user and visibility
\* private, the pattern memories with visibility private, retrieval asks for
\* subject self and visibility public, so the rows retrieval can return are
\* those of the table before the first turn, whatever turns have run.
C25_ChatWritesNeverRetrieved ==
    /\ \A row \in WrittenByChat(store) :
        /\ row.visibility = "private"
        /\ row.type = "user_input" => row.subject = "user"
        /\ row.id \notin RetrievableIds(store)
    /\ RetrievableIds(store) = RetrievableIds(PersonaMemories)
    /\ \A k \in DOMAIN relevantMemories :
        relevantMemories[k].id \notin {row.id : row \in WrittenByChat(store)}

\* a later turn has retrieved memories from a table that holds a user message
\* and a pattern memory of an earlier turn
C25_Witness ==
    /\ turn >= 2
    /\ pc = "context"
    /\ Len(relevantMemories) > 0
    /\ \E row \in WrittenByChat(store) : row.type = "user_input"
    /\ \E row \in WrittenByChat(store) : row.type = "system"

\* how many of the user's messages a table keeps
SessionCount(rows) ==
    getMemories(rows, [user_id |-> SessionUser, type |-> "user_input"]).total

\* how many of them were kept before the conversation
KeptAtStart(rows) ==
    Cardinality({i \in DOMAIN rows : /\ rows[i].id \in InitialIds
                                     /\ rows[i].user_id = SessionUser})

\* the step load_user_context of the turn has run
ContextLoaded == "load_user_context" \in Range(calls.stages)

\* the place of the tier a turn would observe, 0 without a context
ObservedTier(rows) ==
    IF SessionCount(rows) = 0 THEN 0
    ELSE TierRank(determineRelationshipLevel(SessionCount(rows)))

\* what a turn observes, in the table of its receipt and after it
ContextOfTurn ==
    ContextLoaded =>
        LET before == SessionCount(received.store) IN
        /\ userContext # Null =>
            /\ before > 0
            /\ userContext[1].conversation_history_length = before
            /\ userContext[1].relationship_level = TierTable(before)
        /\ faults = 0 => (userContext = Null <=> before = 0)
        /\ (/\ faults = 0
            /\ before = KeptAtStart(received.store) + (turn - 1)
            /\ KeptAtStart(received.store) = 0)
           => IF turn = 1 THEN userContext = Null
              ELSE /\ userContext # Null
                   /\ userContext[1].conversation_history_length = turn - 1
        /\ SessionCount(store) \in {before, before + 1}
        /\ (/\ pc = "responded"
            /\ httpResponse.success
            /\ faults = 0
            /\ Len(trim(request.message)) > 10)
           => SessionCount(store) = before + 1

-----------------------------------------------------------------------------
(* Failures and the memories table (specification Spec) *)

\* chat threw and POST answered with the error envelope
TurnFailed ==
    /\ pc = "responded"
    /\ request # NoRequest
    /\ httpResponse.kind = "error"

\* C27: a chat turn that ends in a failure, the orchestrator throwing and the
\* caller receiving success = false, leaves the memories table as the turn
\* found it, with no insert asked for: every write is made by the learn step,
\* which runs only after the generation step has answered.
C27_FailedTurnWritesNothing ==
    /\ TurnFailed =>
        /\ ~httpResponse.success
        /\ store = received.store
        /\ calls.insert = 0
        /\ learningResults = NoResult
    /\ (received # NoReceived /\ (store # received.store \/ calls.insert > 0)) =>
        /\ "learn" \in Range(calls.stages)
        /\ calls.generate = 1
        /\ calls.generateError = None
        /\ geminiResponse.kind # "thrown"

\* the generation provider threw in a turn whose message would have been kept
C27_Witness ==
    /\ TurnFailed
    /\ calls.generateError # None
    /\ shouldStoreUserMessage(request)
    /\ Len(store) = Len(PersonaMemories)

\* the failures of the turn that calls records
RecordedFailures ==
    (IF calls.retrievalFailure # None THEN 1 ELSE 0)
    + (IF calls.generateError # None THEN 1 ELSE 0)
    + (IF calls.learnFailure # None THEN 1 ELSE 0)

\* the read of the user's memories failed: a failure that is none of the
\* recorded ones, in a turn classified without the provider
ReadFailed ==
    /\ calls.read = 1
    /\ calls.classify = 0
    /\ faults > RecordedFailures

\* C28: a failure of the datastore in a step of a chat turn that touches it,
\* the vector search of retrieval, the read of the user's memories or an insert
\* of learn, never makes the turn fail: when classification and generation
\* succeed the turn answers success = true, with memories_used.count = 0 after
\* a failed search, no user context after a failed read and
\* learning.new_memories_created = 0 after a failed insert of the user message.
C28_DatastoreFailuresTolerated ==
    /\ TurnFailed =>
        \/ calls.generateError # None
        \/ calls.stages = <<"classify">>
    /\ (/\ TurnAnswered
        /\ calls.generate = 1
        /\ calls.generateError = None)
       => /\ httpResponse.kind = "chat"
          /\ httpResponse.success
          /\ calls.retrievalFailure = "search" =>
                /\ relevantMemories = <<>>
                /\ httpResponse.memories_used_count = 0
          /\ ReadFailed => userContext = Null
          /\ calls.learnFailure = "insert" =>
                /\ httpResponse.new_memories_created = 0
                /\ store = received.store

\* the read failed for a user whose earlier message the table keeps, and the
\* turn was answered
C28_Witness ==
    /\ TurnAnswered
    /\ httpResponse.success
    /\ ReadFailed
    /\ getMemories(store, [user_id |-> request.user_id, type |-> "user_input"]).total > 0
    /\ userContext = Null

-----------------------------------------------------------------------------
(* Properties of the canned error responses (specification SvcSpec) *)

\* C29: whenever the generation stage handles an error gracefully, the canned
\* response comes from the overload, the quota or the network pool and never
\* from the model-configuration or the generic pool: every error that
\* shouldHandleGracefully accepts is put by getPersonalityErrorResponse into one
\* of those three categories.
C29_GracefulFromTransientPools ==
    (/\ Called("generateEnhancedTwinResponse")
     /\ svcResult.kind = "graceful")
    => /\ svcCall.outcome.threw
       /\ shouldHandleGracefully(svcCall.outcome.message)
       /\ svcResult.pool \in {"overload", "quota", "network"}
       /\ svcResult.response \in
            Range(getOverloadResponse(svcCall.userMessage))
            \cup Range(getQuotaResponse) \cup Range(getNetworkResponse)
       /\ svcResult.response \notin
            Range(getModelResponse) \cup Range(getGenericResponse(svcCall.userMessage))

\* an error that carries a signature of the network and one of the model is
\* answered from the network pool
C29_Witness ==
    /\ Called("generateEnhancedTwinResponse")
    /\ svcResult.kind = "graceful"
    /\ Includes(svcCall.outcome.message, "timeout")
    /\ Includes(svcCall.outcome.message, "invalid model")
    /\ svcResult.response \in Range(getNetworkResponse)

-----------------------------------------------------------------------------
(* Properties of the client's chat hook (specification HookSpec) *)

\* the requests of a hook state whose continuation has not run
Outstanding(h) ==
    {k \in DOMAIN h.requests : h.requests[k].status \in {"in_flight", "aborting"}}

\* sendMessage was called in the step
SendCalled == hook'.calls = hook.calls + 1

\* C30: in the client's chat hook a call of sendMessage made while an earlier
\* request is in flight, or with blank content, is ignored, so at most one chat
\* request of a hook is outstanding at any time, and each accepted call adds
\* exactly one user message and one assistant placeholder; after every outcome
\* of a request (success, error, abort by clearChat) isLoading and isStreaming
\* are false again.
C30_OneRequestAtATime ==
    /\ [](/\ Cardinality(Outstanding(hook)) <= 1
          /\ Outstanding(hook) = {} => (~hook.isLoading /\ ~hook.isStreaming))
    /\ [][/\ (/\ SendCalled
              /\ \/ trim(hook'.lastCall.content) = ""
                 \/ Outstanding(hook) # {})
             => /\ hook'.lastCall.outcome = "ignored"
                /\ hook'.messages = hook.messages
                /\ hook'.requests = hook.requests
          /\ (SendCalled /\ hook'.lastCall.outcome = "accepted")
             => LET n == Len(hook.messages) IN
                /\ Len(hook'.requests) = Len(hook.requests) + 1
                /\ Len(hook'.messages) = n + 2
                /\ SubSeq(hook'.messages, 1, n) = hook.messages
                /\ hook'.messages[n + 1].role = "user"
                /\ hook'.messages[n + 1].content = trim(hook'.lastCall.content)
                /\ hook'.messages[n + 2].role = "assistant"
                /\ hook'.messages[n + 2].content = ""
                /\ hook'.messages[n + 2].isStreaming
          /\ ~SendCalled => Len(hook'.requests) = Len(hook.requests)
          /\ Outstanding(hook') # Outstanding(hook) /\ ~SendCalled
             => (Outstanding(hook') = {} => /\ ~hook'.isLoading
                                            /\ ~hook'.isStreaming)
          /\ (\E k \in Outstanding(hook) : k \notin Outstanding(hook'))
             => (~hook'.isLoading /\ ~hook'.isStreaming)
         ]_vars

\* a call with content was ignored while the second request was in flight,
\* after the first one was aborted by clearChat
C30_Witness ==
    /\ Len(hook.requests) = 2
    /\ hook.requests[1].status = "aborted"
    /\ hook.requests[2].status = "in_flight"
    /\ hook.lastCall.outcome = "ignored"
    /\ trim(hook.lastCall.content) # ""
    /\ hook.isLoading

====
